---- MODULE Spec2Model ----
(***************************************************************************)
(* Model of the auction tracker's reconciliation bookkeeping:              *)
(*   - the detail-driver pool with cooldown / rehydration and the two      *)
(*     passes that use it (src/src/main.py: insert_new_links_first,        *)
(*     update_prev_entries_for_zone_chunked_fullread),                     *)
(*   - the retry wrappers around remote calls                              *)
(*     (src/src/sheet_automation.py: retry, retry_or_none),                *)
(*   - the chunked scans of a zone's table: the candidate scan of the      *)
(*     update pass (main.py) and the cleanup and upload passes with the    *)
(*     matcher (sheet_automation.py: clean_source_sheets,                  *)
(*     upload_csv_to_sheet, _match_csv_batch_against_chunk),               *)
(*   - the row of one link under the insert pass and the update pass, with *)
(*     the candidate filter and the scraper's merge (main.py:              *)
(*     scrape_row_with_driver, _is_candidate_row_full),                    *)
(*   - the mail collector (sheet_automation.py: parse_subject,             *)
(*     collect_to_csv),                                                    *)
(*   - the zone run that calls the passes on one detail pool (main.py:     *)
(*     get_links_and_status, main),                                        *)
(*   - the update pass beside the upload job on one zone table.            *)
(*                                                                         *)
(* Spec      : one run of the insert pass or of the update pass.           *)
(* RetrySpec : one call of retry or of retry_or_none.                      *)
(* RetryLive : RetrySpec with the fairness of a running loop.              *)
(* SheetSpec : one upload job (cleanup, then upload), or invocations of    *)
(*             the candidate scan.                                         *)
(* ScanLive  : invocations of the candidate scan, repeated for ever.       *)
(* RowSpec   : the passes of some days on the row of one link.             *)
(* MailSpec  : one run of the collector on an inbox.                       *)
(* ZoneSpec  : one zone run: the insert pass of each state, then the       *)
(*             update pass, with what can be raised on the way.            *)
(* RaceSpec  : one upload job and one update pass on the same zone table.  *)
(***************************************************************************)
EXTENDS Integers, Sequences, FiniteSets, TLC

(***************************************************************************)
(* Bounds of the model.                                                    *)
(***************************************************************************)
\* links / candidate rows of a pass run with at most two drivers
MaxUnits == 22

\* links / candidate rows of a pass run with three drivers
MaxUnits3 == 5

\* detail profiles that exist (DETAIL_ACCOUNTS)
Profiles == {"p1", "p2", "p3"}

\* pools a pass can be entered with (load_all_detail_drivers keeps the
\* account order; sessions lost in earlier passes are simply missing)
InitialPools == {<<>>, <<"p1">>, <<"p1", "p2">>, <<"p1", "p2", "p3">>}

(***************************************************************************)
(* Program constants.                                                      *)
(***************************************************************************)
\* cooldown_add(..., entries_until_retry=20)
ENTRIES_UNTIL_RETRY == 20

\* item["remaining"] = 20 after a failed re-open
REOPEN_FAILED_WINDOW == 20

VARIABLES
    pass,        \* which pass runs: "insert" | "update"
    pc,          \* position in the pass
    nunits,      \* number of links / candidate rows the pass is given
    idx,         \* loop iterations taken so far
    pool,        \* detail_drivers: sequence of profile names
    live,        \* profiles whose browser session is open
    cooldown,    \* cooldown list: sequence of [profile, remaining]
    r_i,         \* rotation counter
    cur,         \* pname/drv of the last pick_driver
    vals,        \* last scraper result: "none" | "captcha" | "empty" | "data"
    ulog,        \* events of the current unit of work (stats increments,
                 \* ticks, scrapes, evictions, writes), in program order
    signalled,   \* profiles whose current session returned a captcha signal
    age,         \* ticks seen by a profile since its retirement (until the
                 \* first re-open attempt)
    tried,       \* retired profiles that had a re-open attempt
    attempts,    \* re-open attempts of the last tick call of the step
    waiting,     \* waiting[p]: drivers active ever since p's last selection
                 \* and not selected since
    rrMissed,    \* drivers passed over at the last selection
    fn,          \* the wrapper called: "retry" | "retry_or_none"
    rpc,         \* "call": about to invoke func; "done": the wrapper returned
    attempt,     \* attempt
    delay,       \* delay, in milliseconds
    calls,       \* invocations of func so far
    lastOut,     \* outcome of the last invocation of func
    sleeps,      \* the sleeps taken: [delay, jitter] in milliseconds
    result,      \* how the wrapper ended: [kind, v]
    job,         \* sheet job: "update_scan" | "upload"
    spc,         \* position in the sheet job
    zi,          \* index into zones of the zone being processed
    sheets,      \* source tables: zone -> (row number -> row); only the
                 \* populated rows are in the domain
    row_count,   \* ws.row_count of each source table
    csv,         \* the change records of CSV_FINAL, in file order
    tgt_ws,      \* zones whose archive tab was prepared
    target,      \* archive tables: zone -> sequence of rows below the header
    start,       \* start
    max_row,     \* max_row
    win,         \* the window of the last loop iteration and what it gave
    scan_exit,   \* how the scan loop was left: "" | "end" | "tail" | "cap"
    auction_col, \* auction_col_letter is set (the header names the column)
    seen_links,  \* seen_links
    to_delete,   \* to_delete
    target_rows_buffer,  \* target_rows_buffer
    ins_i,       \* i of the insert loop
    dels,        \* the part of sorted(to_delete, reverse=True) still to do
    applied,     \* remote writes attempted for the zone: [op, at, n, ok]
    matches,     \* matches made for the zone: [rec, row, chunk, archived]
    zlog,        \* zones the upload loop has been through
    nrows,       \* rows of column A of the table the update scan reads
    last_row,    \* last_row
    chunk_size,  \* chunk_size
    max_chunks,  \* max_chunks (NoCap for None)
    chunk_idx,   \* chunk_idx
    windows,     \* windows read by the current invocation: [s, e, ok]
    examined,    \* rows returned to the update scan by any invocation
    faults,      \* kinds of unit that failed in the current zone iteration
    dirty,       \* some unit of the upload job has failed since its first run
    cut,         \* "": first run of the upload job; else where the previous
                 \* run ended: "cleanup" | "upload" (killed there) | "done"
    input,       \* the tables and the CSV the first run started from
    today,       \* date.today(), as a day number
    sheet_row,   \* the row of one link in the zone's table (NoRow: not yet
                 \* inserted)
    rlog,        \* what the passes did with the row: [op, day, before,
                 \* after, page]
    mail,        \* the unread messages the query lists: [subject, body]
    mi,          \* messages the collector has been through
    unread,      \* messages (by index) that carry the UNREAD label
    written,     \* rows written to the temporary CSV
    mlog,        \* per message the collector went through: what it did
    mpc,         \* position in collect_to_csv
    csv_final,   \* CSV_FINAL: [exists, rows]
    zpc,         \* position in the zone run (get_links_and_status and the
                 \* finally of main around it)
    zstate,      \* states of the zone the loop has taken up
    main_live,   \* the profile's main session is open
    zrun,        \* the steps of the zone run: [step, state, how]
    u_pc,        \* position of the update pass that runs beside the upload
                 \* job
    u_rows,      \* rownums / rowdicts of the chunk it read: [rownum, link]
    u_log        \* its writes: [rownum, link, held], held the Link of the
                 \* row at rownum when the write arrived

poolVars == <<pass, pc, nunits, idx, pool, live, cooldown, r_i, cur, vals, ulog,
              signalled, age, tried, attempts, waiting, rrMissed>>

retryVars == <<fn, rpc, attempt, delay, calls, lastOut, sleeps, result>>

sheetVars == <<job, spc, zi, sheets, row_count, csv, tgt_ws, target, start,
               max_row, win, scan_exit, auction_col, seen_links, to_delete,
               target_rows_buffer, ins_i, dels, applied, matches, zlog, nrows,
               last_row, chunk_size, max_chunks, chunk_idx, windows, examined,
               faults, dirty, cut, input>>

rowVars == <<today, sheet_row, rlog>>

mailVars == <<mail, mi, unread, written, mlog, mpc, csv_final>>

\* CSV_FINAL does not exist
NoCsv == [exists |-> FALSE, rows |-> <<>>]

zoneVars == <<zpc, zstate, main_live, zrun>>

raceVars == <<u_pc, u_rows, u_log>>

vars == <<poolVars, retryVars, sheetVars, rowVars, mailVars, zoneVars, raceVars>>

\* no zone run is followed
ZoneIdle == zpc = "idle" /\ zstate = 0 /\ main_live = FALSE /\ zrun = <<>>

\* no update pass runs beside the upload job
RaceIdle == u_pc = "idle" /\ u_rows = <<>> /\ u_log = <<>>

\* the link has no row
NoRow == [Completed |-> "-"]

\* no row is being followed
RowIdle == today = 0 /\ sheet_row = NoRow /\ rlog = <<>>

\* no collection is in progress
MailIdle ==
    /\ mail = <<>> /\ mi = 0 /\ unread = {} /\ written = <<>> /\ mlog = <<>>
    /\ mpc = "idle" /\ csv_final = NoCsv

\* no window was read yet
NoWin == [s |-> 0, e |-> 0, res |-> "-", rows |-> {}, tried |-> 0, err |-> 0]

\* no upload job was started
NoInput == [sheets |-> <<>>, row_count |-> <<>>, csv |-> <<>>]

\* the history of the upload job
runVars == <<faults, dirty, cut, input>>

RunIdle == faults = {} /\ dirty = FALSE /\ cut = "" /\ input = NoInput

\* no sheet job is in progress
SheetIdle ==
    /\ job = "idle"
    /\ spc = "idle"
    /\ zi = 0
    /\ sheets = <<>>
    /\ row_count = <<>>
    /\ csv = <<>>
    /\ tgt_ws = {}
    /\ target = <<>>
    /\ start = 0
    /\ max_row = 0
    /\ win = NoWin
    /\ scan_exit = ""
    /\ auction_col = FALSE
    /\ seen_links = {}
    /\ to_delete = {}
    /\ target_rows_buffer = <<>>
    /\ ins_i = 0
    /\ dels = <<>>
    /\ applied = <<>>
    /\ matches = {}
    /\ zlog = <<>>
    /\ nrows = 0
    /\ last_row = 0
    /\ chunk_size = 0
    /\ max_chunks = 0
    /\ chunk_idx = 0
    /\ windows = <<>>
    /\ examined = {}
    /\ RunIdle

(***************************************************************************)
(* Sequence helpers.                                                       *)
(***************************************************************************)
Range(s) == {s[i] : i \in 1..Len(s)}

RemoveAt(s, j) == SubSeq(s, 1, j - 1) \o SubSeq(s, j + 1, Len(s))

Min(a, b) == IF a <= b THEN a ELSE b

Event(e, d, o, k) == [ev |-> e, drv |-> d, out |-> o, n |-> k]

EventsOf(log, e) == SelectSeq(log, LAMBDA x : x.ev = e)

(***************************************************************************)
(* main.py 866-868: cooldown_add                                           *)
(***************************************************************************)
cooldown_add(cooldown_list, profile_name, entries_until_retry) ==
    Append(cooldown_list, [profile |-> profile_name, remaining |-> entries_until_retry])

(***************************************************************************)
(* main.py 870-886: cooldown_tick_and_try_rehydrate                        *)
(* ok is the set of profiles for which load_single_detail_driver succeeds  *)
(* at this call.  The loop walks a snapshot of the list; removed counts    *)
(* the snapshot items already removed from the live list.                  *)
(***************************************************************************)
\* a tick that re-opens one call too early
RehydrateDue_early(remaining) == remaining <= 1

\* main.py 878: if item["remaining"] <= 0
RehydrateDue(remaining) == remaining <= 0

\* a failed re-open that sets the counter one too high
ResetRemaining_over(item) == [item EXCEPT !.remaining = REOPEN_FAILED_WINDOW + 1]

\* a failed re-open that leaves the counter where it is
ResetRemaining_noreset(item) == item

\* main.py 886: item["remaining"] = 20
ResetRemaining(item) == [item EXCEPT !.remaining = REOPEN_FAILED_WINDOW]

\* main.py 881-883: detail_pool.append(res); cooldown_list.remove(item)
Rehydrated(cd, pl, j) == [cd |-> RemoveAt(cd, j), pl |-> Append(pl, cd[j].profile)]

RECURSIVE TickFrom(_, _, _, _, _, _, _)
TickFrom(i, n, removed, cd, pl, ok, att) ==
    IF i > n THEN [cd |-> cd, pl |-> pl, att |-> att]
    ELSE LET j    == i - removed
             item == [cd[j] EXCEPT !.remaining = cd[j].remaining - 1]
             cd1  == [cd EXCEPT ![j] = item]
         IN  IF RehydrateDue(item.remaining)
             THEN IF item.profile \in ok
                  THEN LET r == Rehydrated(cd1, pl, j)
                       IN  TickFrom(i + 1, n, removed + 1, r.cd, r.pl, ok,
                                    att \cup {[profile |-> item.profile, ok |-> TRUE]})
                  ELSE TickFrom(i + 1, n, removed,
                                [cd1 EXCEPT ![j] = ResetRemaining(item)], pl, ok,
                                att \cup {[profile |-> item.profile, ok |-> FALSE]})
             ELSE TickFrom(i + 1, n, removed, cd1, pl, ok, att)

cooldown_tick_and_try_rehydrate(cooldown_list, detail_pool, ok) ==
    TickFrom(1, Len(cooldown_list), 0, cooldown_list, detail_pool, ok, {})

(***************************************************************************)
(* The mutable context of a pass and the operations on it.                 *)
(***************************************************************************)
Ctx == [pool |-> pool, cooldown |-> cooldown, live |-> live, ulog |-> ulog,
        signalled |-> signalled, age |-> age, tried |-> tried,
        attempts |-> attempts, waiting |-> waiting]

Log(c, e) == [c EXCEPT !.ulog = Append(@, e)]

\* one call of cooldown_tick_and_try_rehydrate(cooldown, detail_drivers)
Tick(c, ok) ==
    LET t      == cooldown_tick_and_try_rehydrate(c.cooldown, c.pool, ok)
        inCd   == {c.cooldown[k].profile : k \in 1..Len(c.cooldown)}
        back   == {a.profile : a \in {x \in t.att : x.ok}}
        tryNow == {a.profile : a \in t.att}
        age1   == [p \in Profiles |->
                     IF p \in inCd /\ p \notin c.tried THEN c.age[p] + 1 ELSE c.age[p]]
    IN  [c EXCEPT
           !.cooldown  = t.cd,
           !.pool      = t.pl,
           !.live      = @ \cup back,
           !.signalled = @ \ back,
           !.age       = [p \in Profiles |-> IF p \in back THEN 0 ELSE age1[p]],
           !.tried     = (@ \cup tryNow) \ back,
           !.attempts  = {[profile |-> a.profile, ok |-> a.ok,
                           first |-> a.profile \notin c.tried,
                           age |-> age1[a.profile]] : a \in t.att},
           !.ulog      = Append(@, Event("tick", "-", "-", Len(t.pl)))]

\* an eviction that leaves the driver in the pool
RemoveDriver_keep(pl, drv) == pl

\* main.py 1120 / 1308: detail_drivers[:] = [(n, d) ... if d is not drv]
RemoveDriver(pl, drv) == SelectSeq(pl, LAMBDA d : d # drv)

\* main.py 1115-1123 / 1306-1310: quit the session, drop it from the pool,
\* put its profile on cooldown
Evict(c, drv) ==
    [c EXCEPT
       !.live     = @ \ {drv},
       !.pool     = RemoveDriver(@, drv),
       !.cooldown = cooldown_add(@, drv, ENTRIES_UNTIL_RETRY),
       !.age      = [@ EXCEPT ![drv] = 0],
       !.tried    = @ \ {drv},
       !.waiting  = [p \in Profiles |-> IF p = drv THEN {} ELSE @[p] \ {drv}],
       !.ulog     = Append(@, Event("evict", drv, "-", 0))]

\* main.py 1089-1090 / 1245-1246: pick_driver
pick_driver(pl, i) == pl[(i % Len(pl)) + 1]

\* pick_driver(r_i) followed by scrape_row_with_driver returning o
Scrape(c, drv, o) ==
    [c EXCEPT
       !.signalled = IF o = "captcha" THEN @ \cup {drv} ELSE @,
       !.waiting   = [p \in Profiles |->
                        IF p = drv THEN Range(c.pool) \ {drv} ELSE @[p] \ {drv}],
       !.attempts  = {},
       !.ulog      = Append(@, Event("scrape", drv, o, 0))]

SetCtx(c) ==
    /\ pool' = c.pool
    /\ cooldown' = c.cooldown
    /\ live' = c.live
    /\ ulog' = c.ulog
    /\ signalled' = c.signalled
    /\ age' = c.age
    /\ tried' = c.tried
    /\ attempts' = c.attempts
    /\ waiting' = c.waiting

ScrapeResults == {"captcha", "empty", "data"}

\* no wrapper call is in progress
RetryIdle ==
    /\ fn = "-"
    /\ rpc = "idle"
    /\ attempt = 0
    /\ delay = 0
    /\ calls = 0
    /\ lastOut = [ok |-> FALSE, v |-> "-"]
    /\ sleeps = <<>>
    /\ result = [kind |-> "-", v |-> "-"]

(***************************************************************************)
(* Start of a pass.                                                        *)
(***************************************************************************)
Init ==
    /\ RowIdle
    /\ MailIdle
    /\ ZoneIdle
    /\ RaceIdle
    /\ pass \in {"insert", "update"}
    /\ pc = "start"
    /\ idx = 0
    /\ pool \in InitialPools
    /\ nunits = IF Len(pool) <= 2 THEN MaxUnits ELSE MaxUnits3
    /\ live = Range(pool)
    /\ cooldown = <<>>
    /\ r_i = 0
    /\ cur = "-"
    /\ vals = "none"
    /\ ulog = <<>>
    /\ signalled = {}
    /\ age = [p \in Profiles |-> 0]
    /\ tried = {}
    /\ attempts = {}
    /\ waiting = [p \in Profiles |-> {}]
    /\ rrMissed = {}
    /\ RetryIdle
    /\ SheetIdle

(***************************************************************************)
(* insert_new_links_first (main.py 1076-1151)                              *)
(***************************************************************************)
\* 1082-1093: stats, early return on an empty link list; r_i = 0 and
\* cooldown = [] (a list of this call) before the loop
InsBegin ==
    /\ pass = "insert" /\ pc = "start"
    /\ UNCHANGED <<retryVars, sheetVars, rowVars, mailVars, zoneVars, raceVars>>
    /\ pc' = IF nunits = 0 THEN "done" ELSE "loop"
    /\ r_i' = IF nunits = 0 THEN r_i ELSE 0
    /\ cooldown' = IF nunits = 0 THEN cooldown ELSE <<>>
    /\ UNCHANGED <<pass, nunits, idx, pool, live, cur, vals, ulog, signalled,
                   age, tried, attempts, waiting, rrMissed>>

\* 1095-1107: next link; blank links are skipped; an empty pool is ticked
InsNextLink(blank, ok) ==
    /\ pass = "insert" /\ pc = "loop" /\ idx < nunits
    /\ UNCHANGED <<retryVars, sheetVars, rowVars, mailVars, zoneVars, raceVars>>
    /\ idx' = idx + 1
    /\ cur' = "-" /\ vals' = "none" /\ rrMissed' = {}
    /\ UNCHANGED <<pass, nunits, r_i>>
    /\ LET c0 == [Ctx EXCEPT !.ulog = <<>>, !.attempts = {}]
       IN  IF blank
           THEN SetCtx(c0) /\ pc' = "loop"
           ELSE LET c1 == Log(c0, Event("attempted", "-", "-", 0))
                IN  IF c1.pool = <<>>
                    THEN LET c2 == Tick(Log(c1, Event("failed", "-", "empty_pool", Len(c1.pool))), ok)
                         IN  /\ SetCtx(c2)
                             /\ pc' = IF c2.pool = <<>> THEN "loop" ELSE "pick"
                    ELSE SetCtx(c1) /\ pc' = "pick"

\* the for loop runs out of links
InsReturn ==
    /\ pass = "insert" /\ pc = "loop" /\ idx = nunits
    /\ UNCHANGED <<retryVars, sheetVars, rowVars, mailVars, zoneVars, raceVars>>
    /\ pc' = "done"
    /\ UNCHANGED <<pass, nunits, idx, pool, live, cooldown, r_i, cur, vals, ulog,
                   signalled, age, tried, attempts, waiting, rrMissed>>

\* 1109-1111: pname, drv = pick_driver(r_i); r_i += 1; vals = scrape(...)
InsScrape(o) ==
    /\ pass = "insert" /\ pc = "pick"
    /\ UNCHANGED <<retryVars, sheetVars, rowVars, mailVars, zoneVars, raceVars>>
    /\ IF pool = <<>>
       THEN /\ pc' = "crash"
            /\ UNCHANGED <<r_i, cur, vals, rrMissed, pool, live, cooldown, ulog,
                           signalled, age, tried, attempts, waiting>>
       ELSE LET drv == pick_driver(pool, r_i)
            IN  /\ cur' = drv
                /\ r_i' = r_i + 1
                /\ vals' = o
                /\ rrMissed' = waiting[drv]
                /\ SetCtx(Scrape(Ctx, drv, o))
                /\ pc' = "got"
    /\ UNCHANGED <<pass, nunits, idx>>

\* 1114-1129: captcha on the first scrape: quit, drop, cooldown, r_i -= 1;
\* with no driver left: failed, tick, next link
InsCaptcha(ok) ==
    /\ pass = "insert" /\ pc = "got" /\ vals = "captcha"
    /\ UNCHANGED <<retryVars, sheetVars, rowVars, mailVars, zoneVars, raceVars>>
    /\ r_i' = r_i - 1
    /\ rrMissed' = {}
    /\ LET c1 == [Evict(Ctx, cur) EXCEPT !.attempts = {}]
       IN  IF c1.pool = <<>>
           THEN /\ SetCtx(Tick(Log(c1, Event("failed", "-", "no_retry_driver", Len(c1.pool))), ok))
                /\ pc' = "loop"
           ELSE SetCtx(c1) /\ pc' = "pick2"
    /\ UNCHANGED <<pass, nunits, idx, cur, vals>>

\* 1130-1131: pname, drv = pick_driver(r_i); r_i += 1; vals = scrape(...)
InsRetry(o) ==
    /\ pass = "insert" /\ pc = "pick2"
    /\ UNCHANGED <<retryVars, sheetVars, rowVars, mailVars, zoneVars, raceVars>>
    /\ IF pool = <<>>
       THEN /\ pc' = "crash"
            /\ UNCHANGED <<r_i, cur, vals, rrMissed, pool, live, cooldown, ulog,
                           signalled, age, tried, attempts, waiting>>
       ELSE LET drv == pick_driver(pool, r_i)
            IN  /\ cur' = drv
                /\ r_i' = r_i + 1
                /\ vals' = o
                /\ rrMissed' = waiting[drv]
                /\ SetCtx(Scrape(Ctx, drv, o))
                /\ pc' = "got2"
    /\ UNCHANGED <<pass, nunits, idx>>

\* 1133: not (isinstance(vals, list) and vals)
InsScrapeFailed(v) == v # "data"

\* 1133-1149: failed scrape, or insert_row / append_row, then the tick
InsFinish(writeOk, ok) ==
    /\ pass = "insert"
    /\ UNCHANGED <<retryVars, sheetVars, rowVars, mailVars, zoneVars, raceVars>>
    /\ \/ pc = "got" /\ vals # "captcha"
       \/ pc = "got2"
    /\ rrMissed' = {}
    /\ LET c1 == IF InsScrapeFailed(vals)
                 THEN Log(Ctx, Event("failed", "-", "scrape", 0))
                 ELSE IF writeOk
                      THEN Log(Log(Ctx, Event("write", cur, vals, 0)),
                               Event("inserted", "-", "-", 0))
                      ELSE Log(Ctx, Event("failed", "-", "write", 0))
       IN  SetCtx(Tick(c1, ok))
    /\ pc' = "loop"
    /\ UNCHANGED <<pass, nunits, idx, r_i, cur, vals>>

(***************************************************************************)
(* update_prev_entries_for_zone_chunked_fullread (main.py 1209-1342):      *)
(* the loop over the candidate rows of the chunks                          *)
(***************************************************************************)
\* 1215-1252: early returns (no drivers, no data rows); r_i = 0 and
\* cooldown = [] (a list of this call) before the loop
UpdBegin ==
    /\ pass = "update" /\ pc = "start"
    /\ UNCHANGED <<retryVars, sheetVars, rowVars, mailVars, zoneVars, raceVars>>
    /\ pc' = IF pool = <<>> \/ nunits = 0 THEN "done" ELSE "loop"
    /\ r_i' = IF pool = <<>> \/ nunits = 0 THEN r_i ELSE 0
    /\ cooldown' = IF pool = <<>> \/ nunits = 0 THEN cooldown ELSE <<>>
    /\ UNCHANGED <<pass, nunits, idx, pool, live, cur, vals, ulog, signalled,
                   age, tried, attempts, waiting, rrMissed>>

\* 1277-1292: next candidate row; an empty pool is ticked first; a row
\* without a link fails and ticks
UpdNextRow(blank, ok1, ok2) ==
    /\ pass = "update" /\ pc = "loop" /\ idx < nunits
    /\ UNCHANGED <<retryVars, sheetVars, rowVars, mailVars, zoneVars, raceVars>>
    /\ idx' = idx + 1
    /\ cur' = "-" /\ vals' = "none" /\ rrMissed' = {}
    /\ UNCHANGED <<pass, nunits, r_i>>
    /\ LET c0 == [Ctx EXCEPT !.ulog = <<>>, !.attempts = {}]
           c1 == IF c0.pool = <<>> THEN Tick(c0, ok1) ELSE c0
       IN  IF c1.pool = <<>>
           THEN /\ SetCtx(Log(c1, Event("failed", "-", "empty_pool", Len(c1.pool))))
                /\ pc' = "loop"
           ELSE IF blank
                THEN /\ SetCtx(Tick(Log(c1, Event("failed", "-", "blank_link", 0)), ok2))
                     /\ pc' = "loop"
                ELSE /\ SetCtx(Log(c1, Event("attempted", "-", "-", 0)))
                     /\ pc' = "pick"

\* the chunk loop runs out of rows (or of chunks)
UpdReturn ==
    /\ pass = "update" /\ pc = "loop" /\ idx = nunits
    /\ UNCHANGED <<retryVars, sheetVars, rowVars, mailVars, zoneVars, raceVars>>
    /\ pc' = "done"
    /\ UNCHANGED <<pass, nunits, idx, pool, live, cooldown, r_i, cur, vals, ulog,
                   signalled, age, tried, attempts, waiting, rrMissed>>

\* 1294-1301: pname, drv = pick_driver(r_i); r_i += 1; updated = scrape(...)
UpdScrape(o) ==
    /\ pass = "update" /\ pc = "pick"
    /\ UNCHANGED <<retryVars, sheetVars, rowVars, mailVars, zoneVars, raceVars>>
    /\ IF pool = <<>>
       THEN /\ pc' = "crash"
            /\ UNCHANGED <<r_i, cur, vals, rrMissed, pool, live, cooldown, ulog,
                           signalled, age, tried, attempts, waiting>>
       ELSE LET drv == pick_driver(pool, r_i)
            IN  /\ cur' = drv
                /\ r_i' = r_i + 1
                /\ vals' = o
                /\ rrMissed' = waiting[drv]
                /\ SetCtx(Scrape(Ctx, drv, o))
                /\ pc' = "got"
    /\ UNCHANGED <<pass, nunits, idx>>

\* 1303-1317: captcha on the first scrape: captchas += 1, quit, drop,
\* cooldown, r_i -= 1; with no driver left: tick, and if still none: failed
UpdCaptcha(ok) ==
    /\ pass = "update" /\ pc = "got" /\ vals = "captcha"
    /\ UNCHANGED <<retryVars, sheetVars, rowVars, mailVars, zoneVars, raceVars>>
    /\ r_i' = r_i - 1
    /\ rrMissed' = {}
    /\ LET c1 == [Evict(Log(Ctx, Event("captchas", cur, "-", 0)), cur) EXCEPT !.attempts = {}]
           c2 == IF c1.pool = <<>> THEN Tick(c1, ok) ELSE c1
       IN  IF c2.pool = <<>>
           THEN /\ SetCtx(Log(c2, Event("failed", "-", "no_retry_driver", Len(c2.pool))))
                /\ pc' = "loop"
           ELSE SetCtx(c2) /\ pc' = "pick2"
    /\ UNCHANGED <<pass, nunits, idx, cur, vals>>

\* 1318-1324: pname, drv = pick_driver(r_i); r_i += 1; updated = scrape(...)
UpdRetry(o) ==
    /\ pass = "update" /\ pc = "pick2"
    /\ UNCHANGED <<retryVars, sheetVars, rowVars, mailVars, zoneVars, raceVars>>
    /\ IF pool = <<>>
       THEN /\ pc' = "crash"
            /\ UNCHANGED <<r_i, cur, vals, rrMissed, pool, live, cooldown, ulog,
                           signalled, age, tried, attempts, waiting>>
       ELSE LET drv == pick_driver(pool, r_i)
            IN  /\ cur' = drv
                /\ r_i' = r_i + 1
                /\ vals' = o
                /\ rrMissed' = waiting[drv]
                /\ SetCtx(Scrape(Ctx, drv, o))
                /\ pc' = "got2"
    /\ UNCHANGED <<pass, nunits, idx>>

\* 1326: not isinstance(updated, dict) or not updated
\* (the captcha signal {"__captcha__": True} is a non-empty dict)
UpdScrapeFailed(v) == v = "empty"

\* 1326-1338: failed scrape, or ws.update of the row, then the tick
UpdFinish(writeOk, ok) ==
    /\ pass = "update"
    /\ UNCHANGED <<retryVars, sheetVars, rowVars, mailVars, zoneVars, raceVars>>
    /\ \/ pc = "got" /\ vals # "captcha"
       \/ pc = "got2"
    /\ rrMissed' = {}
    /\ LET c1 == IF UpdScrapeFailed(vals)
                 THEN Log(Ctx, Event("failed", "-", "scrape", 0))
                 ELSE IF writeOk
                      THEN Log(Log(Ctx, Event("write", cur, vals, 0)),
                               Event("updated", "-", "-", 0))
                      ELSE Log(Ctx, Event("failed", "-", "write", 0))
       IN  SetCtx(Tick(c1, ok))
    /\ pc' = "loop"
    /\ UNCHANGED <<pass, nunits, idx, r_i, cur, vals>>

\* the profiles a tick can try to re-open within the next k calls: the only
\* ones load_single_detail_driver is called for
Due(k) == {cooldown[j].profile : j \in {i \in 1..Len(cooldown) : cooldown[i].remaining <= k}}

(***************************************************************************)
(* One pass.                                                               *)
(***************************************************************************)
Next ==
    \/ InsBegin
    \/ \E blank \in BOOLEAN, ok \in SUBSET Due(1) : InsNextLink(blank, ok)
    \/ InsReturn
    \/ \E o \in ScrapeResults : InsScrape(o)
    \/ \E ok \in SUBSET Due(1) : InsCaptcha(ok)
    \/ \E o \in ScrapeResults : InsRetry(o)
    \/ \E writeOk \in BOOLEAN, ok \in SUBSET Due(1) : InsFinish(writeOk, ok)
    \/ UpdBegin
    \/ \E blank \in BOOLEAN, ok1 \in SUBSET Due(1), ok2 \in SUBSET Due(2) :
          UpdNextRow(blank, ok1, ok2)
    \/ UpdReturn
    \/ \E o \in ScrapeResults : UpdScrape(o)
    \/ \E ok \in SUBSET Due(1) : UpdCaptcha(ok)
    \/ \E o \in ScrapeResults : UpdRetry(o)
    \/ \E writeOk \in BOOLEAN, ok \in SUBSET Due(1) : UpdFinish(writeOk, ok)

Spec == Init /\ [][Next]_vars

(***************************************************************************)
(* Properties of the pool, the cooldown list and the two passes.           *)
(***************************************************************************)
Scrapes == EventsOf(ulog, "scrape")

Ticks == EventsOf(ulog, "tick")

Marked(why) == \E i \in 1..Len(ulog) : ulog[i].ev = "failed" /\ ulog[i].out = why

UnitOver == pc \in {"loop", "done"} /\ ulog # <<>>

CooldownProfiles == {cooldown[k].profile : k \in 1..Len(cooldown)}

\* C1: whenever a driver is about to be selected, every driver whose session
\* returned a captcha signal (first scrape or retry) is out of the pool and
\* its session is closed.
C1_BlockSignalEvicts ==
    pc \in {"pick", "pick2"} =>
        \A p \in signalled : p \notin Range(pool) /\ p \notin live

\* C2: a retired profile has no re-open attempt before its 20th tick, and its
\* first re-open attempt is made by the 20th tick call after its retirement.
C2_FirstAttemptOn20thTick ==
    /\ \A p \in CooldownProfiles : p \notin tried => age[p] < ENTRIES_UNTIL_RETRY
    /\ \A a \in attempts : a.first => a.age = ENTRIES_UNTIL_RETRY

C2_Witness ==
    \E a \in attempts : a.first /\ a.age = ENTRIES_UNTIL_RETRY

\* C3: after a tick that tried to re-open a profile, a successful re-open
\* has the profile in the pool and off the cooldown list, a failed one has it
\* outside the pool with exactly 20 remaining ticks.
C3_RehydrationOutcome ==
    \A a \in attempts :
        LET entries == {k \in 1..Len(cooldown) : cooldown[k].profile = a.profile}
        IN  IF a.ok
            THEN a.profile \in Range(pool) /\ entries = {}
            ELSE /\ a.profile \notin Range(pool)
                 /\ Cardinality(entries) = 1
                 /\ \A k \in entries : cooldown[k].remaining = 20

C3_Witness ==
    \E a \in attempts :
        /\ a.ok
        /\ a.profile \in Range(pool)
        /\ a.profile \notin CooldownProfiles

\* C4: a processed unit of work has caused exactly one cooldown tick when
\* the pass moves on.
C4_OneTickPerUnit ==
    UnitOver => Len(Ticks) = 1

\* C5: a unit marked failed for an empty pool had a tick that left the pool
\* empty, was not scraped, and the pass goes on with the next unit.
C5_EmptyPoolSoftFail ==
    Marked("empty_pool") =>
        /\ \E i \in 1..Len(ulog) : ulog[i].ev = "tick" /\ ulog[i].n = 0
        /\ Scrapes = <<>>
        /\ UnitOver

\* C6: when a driver is selected again, no driver that stayed active since
\* its previous selection has been passed over.
C6_RoundRobin ==
    rrMissed = {}

\* C7: a unit is scraped at most twice; a second scrape happens only after a
\* captcha on the first and uses another driver; a unit whose first scrape
\* hit a captcha is either retried or, with no driver left, marked failed,
\* and the pass goes on.
C7_RetryOnceOnOther ==
    /\ Len(Scrapes) <= 2
    /\ Len(Scrapes) = 2 => Scrapes[1].out = "captcha" /\ Scrapes[2].drv # Scrapes[1].drv
    /\ (UnitOver /\ Len(Scrapes) >= 1 /\ Scrapes[1].out = "captcha") =>
           Len(Scrapes) = 2 \/ Marked("no_retry_driver")
    /\ Marked("no_retry_driver") =>
           /\ Len(Scrapes) = 1
           /\ UnitOver
           /\ \A i \in 1..Len(ulog) :
                 ulog[i].ev = "failed" /\ ulog[i].out = "no_retry_driver" => ulog[i].n = 0

C7_Witness ==
    /\ pc = "loop"
    /\ Len(Scrapes) = 2
    /\ Scrapes[1].out = "captcha"
    /\ Scrapes[2].drv # Scrapes[1].drv

(***************************************************************************)
(* Retry wrappers (sheet_automation.py 68-70, 185-236).                    *)
(* Times are in milliseconds: BASE_DELAY = 1.0 s, JITTER = 0.5 s, the cap  *)
(* of the delay is 16.0 s.                                                 *)
(***************************************************************************)
MAX_ATTEMPTS == 6

BASE_DELAY == 1000

JITTER == 500

\* sheet_automation.py 215 / 235: min(delay * 2, 16.0)
MAX_DELAY == 16000

\* values random.uniform(0, JITTER) can return
JitterSamples == {0, 250, JITTER}

\* sheet_automation.py 190-194: retryable_markers
retryable_markers ==
    <<"[429]", "[500]", "[502]", "[503]", "[504]",
      "Rate Limit Exceeded", "quota", "Quota", "timeout",
      "Connection aborted", "Remote end closed", "reset by peer">>

\* str(ex) of the errors the wrapped call can raise
ErrorTexts ==
    {"APIError: [429]: Quota exceeded for quota metric Read requests",
     "APIError: [503]: The service is currently unavailable.",
     "HTTPSConnectionPool: Read timed out. (read timeout=120)",
     "APIError: [404]: Requested entity was not found.",
     "Timeout waiting for response",
     ""}

\* values the wrapped call can return
FuncResults == {"value", "None"}

Outcomes ==
    {[ok |-> TRUE, v |-> r] : r \in FuncResults} \cup
    {[ok |-> FALSE, v |-> e] : e \in ErrorTexts}

\* mark in txt
Contains(txt, mark) ==
    \E i \in 1..(Len(txt) - Len(mark) + 1) : SubSeq(txt, i, i + Len(mark) - 1) = mark

\* sheet_automation.py 188-195: _should_retry_exception
should_retry_exception(txt) ==
    \E k \in 1..Len(retryable_markers) : Contains(txt, retryable_markers[k])

\* an attempt cap that is off by one
GiveUp_offbyone(att, txt) == att > MAX_ATTEMPTS \/ ~should_retry_exception(txt)

\* a give-up test that ignores the classification of the error
GiveUp_anyerror(att, txt) == att >= MAX_ATTEMPTS

\* sheet_automation.py 209 / 230: attempt >= MAX_ATTEMPTS or not _should_retry_exception(ex)
GiveUp(att, txt) == att >= MAX_ATTEMPTS \/ ~should_retry_exception(txt)

\* a backoff that grows linearly
NextDelay_linear(d) == Min(d + BASE_DELAY, MAX_DELAY)

\* sheet_automation.py 215 / 235: delay = min(delay * 2, 16.0)
NextDelay(d) == Min(d * 2, MAX_DELAY)

\* sheet_automation.py 185-186: _sleep_with_jitter(delay)
sleep_with_jitter(log, d, j) == Append(log, [delay |-> d, jitter |-> j])

\* the pass variables while a wrapper is exercised on its own
PoolIdle ==
    /\ pass = "-"
    /\ pc = "idle"
    /\ nunits = 0
    /\ idx = 0
    /\ pool = <<>>
    /\ live = {}
    /\ cooldown = <<>>
    /\ r_i = 0
    /\ cur = "-"
    /\ vals = "none"
    /\ ulog = <<>>
    /\ signalled = {}
    /\ age = [p \in Profiles |-> 0]
    /\ tried = {}
    /\ attempts = {}
    /\ waiting = [p \in Profiles |-> {}]
    /\ rrMissed = {}

\* sheet_automation.py 202-203 / 223-224: attempt = 1; delay = BASE_DELAY
RetryInit ==
    /\ PoolIdle
    /\ SheetIdle
    /\ RowIdle
    /\ MailIdle
    /\ ZoneIdle
    /\ RaceIdle
    /\ fn \in {"retry", "retry_or_none"}
    /\ rpc = "call"
    /\ attempt = 1
    /\ delay = BASE_DELAY
    /\ calls = 0
    /\ lastOut = [ok |-> FALSE, v |-> "-"]
    /\ sleeps = <<>>
    /\ result = [kind |-> "-", v |-> "-"]

\* sheet_automation.py 204-216: one round of the loop of retry; func returns
\* or raises o, random.uniform gives j
retry(o, j) ==
    /\ fn = "retry" /\ rpc = "call"
    /\ calls' = calls + 1
    /\ lastOut' = o
    /\ IF o.ok
       THEN /\ result' = [kind |-> "returned", v |-> o.v]
            /\ rpc' = "done"
            /\ UNCHANGED <<attempt, delay, sleeps>>
       ELSE IF GiveUp(attempt, o.v)
            THEN /\ result' = [kind |-> "raised", v |-> o.v]
                 /\ rpc' = "done"
                 /\ UNCHANGED <<attempt, delay, sleeps>>
            ELSE /\ sleeps' = sleep_with_jitter(sleeps, delay, j)
                 /\ delay' = NextDelay(delay)
                 /\ attempt' = attempt + 1
                 /\ UNCHANGED <<result, rpc>>
    /\ UNCHANGED <<fn, poolVars, sheetVars, rowVars, mailVars, zoneVars, raceVars>>

\* sheet_automation.py 225-236: one round of the loop of retry_or_none
retry_or_none(o, j) ==
    /\ fn = "retry_or_none" /\ rpc = "call"
    /\ calls' = calls + 1
    /\ lastOut' = o
    /\ IF o.ok
       THEN /\ result' = [kind |-> "returned", v |-> o.v]
            /\ rpc' = "done"
            /\ UNCHANGED <<attempt, delay, sleeps>>
       ELSE IF GiveUp(attempt, o.v)
            THEN /\ result' = [kind |-> "returned", v |-> "None"]
                 /\ rpc' = "done"
                 /\ UNCHANGED <<attempt, delay, sleeps>>
            ELSE /\ sleeps' = sleep_with_jitter(sleeps, delay, j)
                 /\ delay' = NextDelay(delay)
                 /\ attempt' = attempt + 1
                 /\ UNCHANGED <<result, rpc>>
    /\ UNCHANGED <<fn, poolVars, sheetVars, rowVars, mailVars, zoneVars, raceVars>>

RetryNext ==
    \/ \E o \in Outcomes, j \in JitterSamples : retry(o, j)
    \/ \E o \in Outcomes, j \in JitterSamples : retry_or_none(o, j)

RetrySpec == RetryInit /\ [][RetryNext]_vars

\* the loop of a wrapper keeps running until it returns or raises
RetryLive == RetryInit /\ [][RetryNext]_vars /\ WF_vars(RetryNext)

(***************************************************************************)
(* Properties of the retry wrappers.                                       *)
(***************************************************************************)
\* C8: a wrapper invokes func at most MAX_ATTEMPTS times, ends at the first
\* successful invocation with that invocation's result, and always ends.
C8_RetryBoundedTerminates ==
    /\ [](/\ calls <= MAX_ATTEMPTS
          /\ (calls > 0 /\ lastOut.ok) =>
                 rpc = "done" /\ result = [kind |-> "returned", v |-> lastOut.v]
          /\ rpc = "call" => (calls = attempt - 1 /\ ~lastOut.ok))
    /\ <>(rpc = "done")

C8_Witness ==
    rpc = "done" /\ calls = MAX_ATTEMPTS /\ lastOut.ok /\ result.v = lastOut.v

\* C9: the k-th sleep has base delay min(BASE_DELAY * 2^(k-1), 16 s), there
\* are at most five sleeps, and every jitter is within 0..JITTER.
C9_BackoffSchedule ==
    /\ Len(sleeps) <= 5
    /\ \A k \in 1..Len(sleeps) :
          /\ sleeps[k].delay = Min(BASE_DELAY * 2^(k - 1), 16000)
          /\ sleeps[k].jitter >= 0
          /\ sleeps[k].jitter <= JITTER

C9_Witness ==
    /\ Len(sleeps) = 5
    /\ [k \in 1..5 |-> sleeps[k].delay] = <<1000, 2000, 4000, 8000, 16000>>

\* C10: an error that is not retryable ends the wrapper at that attempt:
\* retry raises it, retry_or_none returns None; retry_or_none never raises,
\* also when a retryable error persists through all attempts.
C10_FatalErrorsStop ==
    /\ (calls > 0 /\ ~lastOut.ok /\ ~should_retry_exception(lastOut.v)) =>
          /\ rpc = "done"
          /\ fn = "retry" => result = [kind |-> "raised", v |-> lastOut.v]
          /\ fn = "retry_or_none" => result = [kind |-> "returned", v |-> "None"]
    /\ fn = "retry_or_none" => result.kind # "raised"
    /\ (fn = "retry_or_none" /\ rpc = "done" /\ ~lastOut.ok) =>
          result = [kind |-> "returned", v |-> "None"]

C10_Witness ==
    /\ fn = "retry" /\ rpc = "done" /\ calls >= 2
    /\ ~lastOut.ok /\ ~should_retry_exception(lastOut.v)
    /\ result = [kind |-> "raised", v |-> lastOut.v]

(***************************************************************************)
(* Text helpers of the sheet jobs.  Strings are sequences of characters;   *)
(* a character is a string of length one.                                  *)
(***************************************************************************)
UPPERS == "ABCDEFGHIJKLMNOPQRSTUVWXYZ"

LOWERS == "abcdefghijklmnopqrstuvwxyz"

DIGITS == "0123456789"

\* characters matched by \s that occur in the model's texts
WHITESPACE == " \t\n\r"

\* the value None of an Optional[int]
NoneInt == -1

CharAt(s, i) == SubSeq(s, i, i)

MinOf(S) == CHOOSE x \in S : \A y \in S : x <= y

MaxOf(S) == CHOOSE x \in S : \A y \in S : x >= y

IndexIn(c, alphabet) ==
    IF \E i \in 1..Len(alphabet) : CharAt(alphabet, i) = c
    THEN CHOOSE i \in 1..Len(alphabet) : CharAt(alphabet, i) = c
    ELSE 0

IsIn(c, alphabet) == IndexIn(c, alphabet) > 0

Translate(c, from, to) == IF IsIn(c, from) THEN CharAt(to, IndexIn(c, from)) ELSE c

\* str.lower()
RECURSIVE lower(_)
lower(s) ==
    IF s = "" THEN ""
    ELSE Translate(CharAt(s, 1), UPPERS, LOWERS) \o lower(SubSeq(s, 2, Len(s)))

\* str.upper()
RECURSIVE upper(_)
upper(s) ==
    IF s = "" THEN ""
    ELSE Translate(CharAt(s, 1), LOWERS, UPPERS) \o upper(SubSeq(s, 2, Len(s)))

RECURSIVE lstrip(_)
lstrip(s) ==
    IF s # "" /\ IsIn(CharAt(s, 1), WHITESPACE)
    THEN lstrip(SubSeq(s, 2, Len(s)))
    ELSE s

RECURSIVE rstrip(_)
rstrip(s) ==
    IF s # "" /\ IsIn(CharAt(s, Len(s)), WHITESPACE)
    THEN rstrip(SubSeq(s, 1, Len(s) - 1))
    ELSE s

\* str.strip()
strip(s) == rstrip(lstrip(s))

\* re.sub of every character outside the alphabet by ''
RECURSIVE Keep(_, _)
Keep(s, alphabet) ==
    IF s = "" THEN ""
    ELSE (IF IsIn(CharAt(s, 1), alphabet) THEN CharAt(s, 1) ELSE "")
         \o Keep(SubSeq(s, 2, Len(s)), alphabet)

\* sheet_automation.py 389: MULTISPACE_RE.sub(' ', s)
RECURSIVE MULTISPACE_RE_sub(_)
MULTISPACE_RE_sub(s) ==
    IF s = "" THEN ""
    ELSE IF IsIn(CharAt(s, 1), WHITESPACE)
         THEN " " \o MULTISPACE_RE_sub(lstrip(s))
         ELSE CharAt(s, 1) \o MULTISPACE_RE_sub(SubSeq(s, 2, Len(s)))

\* sheet_automation.py 388: ALNUM_SPACE_RE.sub('', s), on lower-cased text
ALNUM_SPACE_RE_sub(s) == Keep(s, LOWERS \o UPPERS \o DIGITS \o " ")

\* sheet_automation.py 391-401
normalize_address_basic(addr) ==
    IF addr = "" THEN ""
    ELSE strip(MULTISPACE_RE_sub(ALNUM_SPACE_RE_sub(strip(lower(addr)))))

\* int(s) of a string of digits
RECURSIVE ParseInt(_, _)
ParseInt(s, acc) ==
    IF s = "" THEN acc
    ELSE ParseInt(SubSeq(s, 2, Len(s)), 10 * acc + IndexIn(CharAt(s, 1), DIGITS) - 1)

\* s.split('.', 1)[0]
BeforeDot(s) ==
    IF Contains(s, ".")
    THEN SubSeq(s, 1, MinOf({i \in 1..Len(s) : CharAt(s, i) = "."}) - 1)
    ELSE s

\* sheet_automation.py 408-419
money_to_int_or_none(value) ==
    IF value = "" THEN NoneInt
    ELSE LET s == Keep(value, DIGITS \o ".")
         IN  IF s = "" \/ Keep(s, DIGITS) = "" THEN NoneInt
             ELSE IF BeforeDot(s) = "" THEN NoneInt
                  ELSE ParseInt(BeforeDot(s), 0)

(***************************************************************************)
(* Dates.  A date is its day number, the days since Dec 31, 2024; the      *)
(* cell texts of the model carry the years 2025 and 2026 (no leap year).   *)
(***************************************************************************)
\* the month names %b matches, case aside
MonthNames == <<"jan", "feb", "mar", "apr", "may", "jun",
                "jul", "aug", "sep", "oct", "nov", "dec">>

MonthDays == <<31, 28, 31, 30, 31, 30, 31, 31, 30, 31, 30, 31>>

ModelYears == {2025, 2026}

RECURSIVE DaysBefore(_)
DaysBefore(m) == IF m = 1 THEN 0 ELSE MonthDays[m - 1] + DaysBefore(m - 1)

\* datetime.date(Y, m, d)
DayNumber(Y, m, d) == (Y - 2025) * 365 + DaysBefore(m) + d

MonthOf(name) ==
    IF \E m \in 1..12 : MonthNames[m] = name
    THEN CHOOSE m \in 1..12 : MonthNames[m] = name
    ELSE 0

\* the first position at or after i whose character is outside the alphabet
RECURSIVE SkipIn(_, _, _)
SkipIn(s, i, alphabet) ==
    IF i <= Len(s) /\ IsIn(CharAt(s, i), alphabet)
    THEN SkipIn(s, i + 1, alphabet)
    ELSE i

\* the date of month m, day d and year Y, NoneInt when there is none
strptime_date(m, d, Y) ==
    IF d >= 1 /\ d <= MonthDays[m] /\ Y \in ModelYears
    THEN DayNumber(Y, m, d)
    ELSE NoneInt

\* ... the year: the four digits from position k to the end
strptime_year(s, m, d, ytxt) ==
    IF Len(ytxt) = 4 /\ Keep(ytxt, DIGITS) = ytxt
    THEN strptime_date(m, d, ParseInt(ytxt, 0))
    ELSE NoneInt

\* ... the comma at position j, behind the one or two digits of the day
\* that start at i, and the white space behind the comma
strptime_comma(s, gap, m, i, j, k) ==
    IF /\ (j - i) \in {1, 2}
       /\ j <= Len(s)
       /\ CharAt(s, j) = ","
       /\ (gap => k > j + 1)
    THEN strptime_year(s, m, ParseInt(SubSeq(s, i, j - 1), 0), SubSeq(s, k, Len(s)))
    ELSE NoneInt

\* ... the day: its digits start at position i, behind the white space
\* that follows the month
strptime_day(s, gap, m, i, j) ==
    IF m # 0 /\ i > 4
    THEN strptime_comma(s, gap, m, i, j,
                        IF gap THEN SkipIn(s, j + 1, WHITESPACE) ELSE j + 1)
    ELSE NoneInt

strptime_month(s, gap, m, i) == strptime_day(s, gap, m, i, SkipIn(s, i, DIGITS))

\* datetime.strptime(s, "%b %d, %Y").date() when gap, and
\* datetime.strptime(s, "%b %d,%Y").date() when not; NoneInt for ValueError.
\* The text must match (jan|...|dec)\s+(day),\s+(\d\d\d\d) as a whole, the
\* day has one or two digits and exists in the month.
strptime(s, gap) ==
    IF Len(s) >= 3
    THEN strptime_month(s, gap, MonthOf(lower(SubSeq(s, 1, 3))),
                        SkipIn(s, 4, WHITESPACE))
    ELSE NoneInt

\* the date d of the strict format, or else what the compact format gives
first_format(d, v) == IF d # NoneInt THEN d ELSE strptime(v, FALSE)

parse_stripped_date(v) ==
    IF v = "" THEN NoneInt ELSE first_format(strptime(v, TRUE), v)

\* sheet_automation.py 504-523: the strict format, then the fallbacks (the
\* directive %e raises ValueError whatever the text)
parse_sheet_date(value) == parse_stripped_date(strip(value))

\* dt.date.today() of the upload job
TODAY == strptime("Nov 18, 2025", TRUE)

\* sheet_automation.py 84-86
WEST == {"CA", "AZ", "NV", "WA", "OR", "UT", "ID", "CO"}

CENTRAL == {"TX", "OK", "LA", "MS", "OH", "MI", "MN"}

EAST == {"FL", "GA", "NC", "VA", "TN", "AL"}

\* sheet_automation.py 88-95
zone_for_state(state) ==
    IF state = "" THEN ""
    ELSE IF upper(state) \in WEST THEN "WEST"
    ELSE IF upper(state) \in CENTRAL THEN "CENTRAL"
    ELSE IF upper(state) \in EAST THEN "EAST"
    ELSE ""

\* sheet_automation.py 121-128: STATE_RE, the positions where it matches
STATE_RE_hits(a) ==
    {i \in 1..(Len(a) - 1) :
        /\ upper(SubSeq(a, i, i + 1)) \in (WEST \cup CENTRAL \cup EAST)
        /\ (i = 1 \/ IsIn(CharAt(a, i - 1), WHITESPACE \o ",."))
        /\ (i + 1 = Len(a) \/ IsIn(CharAt(a, i + 2), WHITESPACE \o ",."))}

\* sheet_automation.py 137-139, with "" for None
extract_state(address) ==
    IF STATE_RE_hits(address) = {} THEN ""
    ELSE LET i == MinOf(STATE_RE_hits(address)) IN upper(SubSeq(address, i, i + 1))

(***************************************************************************)
(* Tables and change records of the sheet jobs.                            *)
(***************************************************************************)
\* sheet_automation.py 64
SOURCE_CHUNK_SIZE == 500

\* rows of one insert_rows call; the program's SHEETS_BATCH_SIZE is 50, the
\* model's staged lists are short, so the batch is scaled down with them
SHEETS_BATCH_SIZE == 2

\* sheet_automation.py 590 / 754: if end > 5000
TAIL_EXIT_ROW == 5000

\* sheet_automation.py 564 / 716: ws.row_count or 10000
DEFAULT_MAX_ROW == 10000

\* sheet_automation.py 621: (today - d).days >= 15
STALE_DAYS == 15

\* sheet_automation.py 881: if surplus < 100
MIN_SURPLUS == 100

\* sheet_automation.py 669: zones = ["EAST", "WEST", "CENTRAL"]
zones == <<"EAST", "WEST", "CENTRAL">>

\* days of a row whose Auction Start Date is blank or does not parse
NoDate == -9999

\* (dt.date.today() - d).days
days_since(d) == IF d = NoneInt THEN NoDate ELSE TODAY - d

\* sheet_automation.py 620-621: (dt.date.today() - d).days of a cell
row_age(cell) == days_since(parse_sheet_date(cell))

\* a source row: Link, Address, Opening Bid and Auction Start Date
SheetRow(l, a, o, d) == [link |-> l, addr |-> a, ob |-> o, date |-> d]

\* a change record of the CSV: address, type, final_bid
Change(a, t, f) == [address |-> a, type |-> t, final_bid |-> f]

RowOak == SheetRow("L1", "12 Oak St, Miami, FL 33101", "$200,000", "Nov 15, 2025")

RowOakUnit == SheetRow("L2", "12 Oak St, Miami, FL 33101 Unit 4", "$150,000.50", "Nov 16, 2025")

RowOakTbd == SheetRow("L3", " 12 OAK ST., MIAMI FL ", "TBD", "TBD")

RowOakDotted == SheetRow("L4", "12 Oak St Miami F.L.", "$1,000", " nov  17, 2025 ")

RowNoAddr == SheetRow("L5", "", "", "")

RowElm == SheetRow("L6", "7 Elm Rd, Austin, TX", "$150,400", "Nov 18, 2025")

RowPine == SheetRow("L7", "3 Pine Ct, Tampa, FL", "$10", "Nov 04, 2025")

RowStale == SheetRow("L8", "9 Bay Dr, Tampa, FL", "$90,000", "Nov 3,2025")

RowOakAgain == SheetRow("L1", "12 Oak St, Miami, FL 33101", "$200,000", "Nov 15, 2025")

SoldOak == Change("12 Oak St, Miami, FL", "Sold To 3rd Party", "$200,100.99")

RemovedOak == Change("12 oak st. miami fl", "Removed", "")

NoStateOak == Change("12 Oak St", "Sold To 3rd Party", "$900,000")

SoldOakNoBid == Change("12 Oak St, Miami, FL", "sold to 3rd party", "n/a")

SoldElm == Change("7 Elm Rd, Austin, TX", "Sold To 3rd Party", "$150,499.99")

SoldPine == Change("3 Pine Ct, Tampa, FL", "Sold To 3rd Party", "$200")

SoldBay == Change("9 Bay Dr, Tampa, FL", "Sold To 3rd Party", "95000")

NoRows == [r \in {} |-> RowOak]

\* one run of the upload job: the three source tables with their row
\* counts, and the CSV file
Scenario(e, ec, w, wc, c, cc, f) ==
    [sheets    |-> [z \in Range(zones) |->
                      IF z = "EAST" THEN e ELSE IF z = "WEST" THEN w ELSE c],
     row_count |-> [z \in Range(zones) |->
                      IF z = "EAST" THEN ec ELSE IF z = "WEST" THEN wc ELSE cc],
     csv       |-> f]

\* the runs the model explores
Scenarios ==
    { Scenario(2 :> RowOak, 600, NoRows, 1, NoRows, 1,
               <<SoldOak, RemovedOak>>),
      Scenario((2 :> RowOak) @@ (502 :> RowOakUnit), 1000, NoRows, 1, NoRows, 1,
               <<SoldOak>>),
      Scenario((2 :> RowOakDotted) @@ (3 :> RowNoAddr) @@ (4 :> RowOakTbd), 4,
               NoRows, 1, NoRows, 1,
               <<NoStateOak, SoldOak>>),
      Scenario(NoRows, 5600, NoRows, 1, 2 :> RowElm, 400,
               <<SoldElm, SoldOakNoBid>>),
      Scenario((2 :> RowOak) @@ (3 :> RowPine) @@ (4 :> RowStale) @@ (5 :> RowOakAgain), 5,
               NoRows, 0, NoRows, 1,
               <<SoldOak, SoldPine, SoldBay>>),
      Scenario(5003 :> RowOak, 5600, NoRows, 1, NoRows, 1,
               <<RemovedOak>>),
      Scenario(2 :> RowOakTbd, 2, NoRows, 1, NoRows, 1, <<>>) }

\* the rows of a table
Range2(t) == {t[r] : r \in DOMAIN t}

\* rows of table t inside the window s..e
RowsIn(t, s, e) == {r \in DOMAIN t : s <= r /\ r <= e}

\* ws.delete_rows(r): the rows below r move up by one
delete_rows(t, r) ==
    [k \in {IF j > r THEN j - 1 ELSE j : j \in DOMAIN t \ {r}} |->
        IF k >= r THEN t[k + 1] ELSE t[k]]

\* sorted(to_delete): ascending
RECURSIVE sorted_ascending(_)
sorted_ascending(S) ==
    IF S = {} THEN <<>> ELSE <<MinOf(S)>> \o sorted_ascending(S \ {MinOf(S)})

\* sorted(to_delete, reverse=True)
RECURSIVE sorted_reverse(_)
sorted_reverse(S) ==
    IF S = {} THEN <<>> ELSE <<MaxOf(S)>> \o sorted_reverse(S \ {MaxOf(S)})

(***************************************************************************)
(* _match_csv_batch_against_chunk (sheet_automation.py 823-894)            *)
(***************************************************************************)
\* a state guard that lets every row through
StateGuard_off(state, addr_txt) == TRUE

\* 850-851: if state and state.upper() not in addr_txt.upper(): continue
StateGuard(state, addr_txt) ==
    state = "" \/ Contains(upper(addr_txt), upper(state))

\* 848-853: the chunk row passes the guard and contains the change address
RowMatches(csv_norm, state, row) ==
    /\ StateGuard(state, strip(row.addr))
    /\ csv_norm # ""
    /\ normalize_address_basic(strip(row.addr)) # ""
    /\ Contains(normalize_address_basic(strip(row.addr)), csv_norm)

\* a match that leaves the row in the chunk
del_chunk_map_keep(chunk_map, rnum) == chunk_map

\* 856: del chunk_map[rnum]
del_chunk_map(chunk_map, rnum) == chunk_map \ {rnum}

\* a match that stages no deletion
to_delete_add_none(staged, rnum) == staged

\* 863: to_delete.add(matched_rownum)
to_delete_add(staged, rnum) == staged \cup {rnum}

\* an archive decision that accepts a surplus one below the threshold
Archivable_99(typ, fb_int, ob_int) ==
    /\ lower(typ) = "sold to 3rd party"
    /\ fb_int # NoneInt /\ ob_int # NoneInt
    /\ fb_int - ob_int >= MIN_SURPLUS - 1

\* 865-882: the type is Sold To 3rd Party, both bids parse, surplus >= 100
Archivable(typ, fb_int, ob_int) ==
    /\ lower(typ) = "sold to 3rd party"
    /\ fb_int # NoneInt /\ ob_int # NoneInt
    /\ fb_int - ob_int >= MIN_SURPLUS

\* 884-893: the staged archive row
ArchiveRow(row, final_bid, surplus) ==
    [link |-> row.link, addr |-> row.addr, ob |-> row.ob,
     final_bid |-> final_bid, surplus |-> surplus]

\* every source row and every change record of the scenarios
AllRows == UNION {Range2(sc.sheets[z]) : sc \in Scenarios, z \in Range(zones)}

AllChanges == UNION {Range(sc.csv) : sc \in Scenarios}

\* 832-842: what the iteration derives from a change record alone
ParsedChange(rec) ==
    LET address == strip(rec.address)
        state   == extract_state(address)
    IN  [address   |-> address,
         typ       |-> strip(rec.type),
         final_bid |-> strip(rec.final_bid),
         state     |-> state,
         z         |-> zone_for_state(state),
         csv_norm  |-> normalize_address_basic(address),
         fb_int    |-> money_to_int_or_none(strip(rec.final_bid))]

\* the change records, parsed once
parsed == [rec \in AllChanges |-> ParsedChange(rec)]

\* 848-853: the rows a change record can match, evaluated once
matching == [rec \in AllChanges |->
               {row \in AllRows :
                   RowMatches(parsed[rec].csv_norm, parsed[rec].state, row)}]

\* 872: ob_int of the rows, evaluated once
ob_int_of == [row \in AllRows |-> money_to_int_or_none(row.ob)]

\* the age in days of the Auction Start Date, cell text by cell text
age_of == [d \in {r.date : r \in AllRows} |-> row_age(d)]

\* 830-894: one iteration of the loop over the batch, for record i of the
\* file; raises says that reading the record's fields raised (the except
\* of 892 skips the record).  m carries the chunk map (its row numbers),
\* to_delete, target_rows_buffer and the matches made.
MatchRecord(zone, t, chunk, rec, i, raises, m) ==
    LET p    == parsed[rec]
        hits == {r \in m.chunk_map : t[r] \in matching[rec]}
    IN  IF raises \/ p.z # zone \/ p.csv_norm = "" \/ hits = {}
        THEN m
        ELSE LET rnum    == MinOf(hits)
                 ob_int  == ob_int_of[t[rnum]]
                 archive == Archivable(p.typ, p.fb_int, ob_int)
             IN  [chunk_map |-> del_chunk_map(m.chunk_map, rnum),
                  to_delete |-> to_delete_add(m.to_delete, rnum),
                  buffer    |-> IF archive
                                THEN Append(m.buffer,
                                            ArchiveRow(t[rnum], p.final_bid,
                                                       p.fb_int - ob_int))
                                ELSE m.buffer,
                  matches   |-> m.matches \cup
                                  {[rec |-> i, row |-> rnum, chunk |-> chunk,
                                    archived |-> archive]}]

\* 830: for row in batch, from record i on
RECURSIVE match_csv_batch_against_chunk(_, _, _, _, _, _, _)
match_csv_batch_against_chunk(zone, t, chunk, batch, i, err, m) ==
    IF i > Len(batch) THEN m
    ELSE match_csv_batch_against_chunk(zone, t, chunk, batch, i + 1, err,
             MatchRecord(zone, t, chunk, batch[i], i, err = i, m))

\* what can go wrong in one pass over the file: nothing (0), or the
\* iteration of one record raises
RowErrors(n) == 0..n

(***************************************************************************)
(* The chunked scans.                                                      *)
(***************************************************************************)
\* rows of column A of the tables the update scan is run on
MaxRows == 6

\* chunk_size values the update scan is called with
MaxChunkSize == 3

\* max_chunks values the update scan is called with
MaxChunks == 2

\* max_chunks = None
NoCap == -1

\* a window one row longer than the chunk size
WindowEnd_over(s, size, last) == s + size

\* main.py 1257 / sheet_automation.py 570, 721:
\* end = min(start + chunk_size - 1, data_end)
WindowEnd(s, size, last) == Min(s + size - 1, last)

\* a scan that leaves out the row after each window
next_start_skip(e) == e + 2

\* main.py 1340 / sheet_automation.py 582, 593, 624, 730, 759, 786:
\* start = end + 1
next_start(e) == e + 1

\* a tail exit on any empty window
TailExit_anywhere(e) == TRUE

\* sheet_automation.py 590 / 754: if end > 5000
TailExit(e) == e > TAIL_EXIT_ROW

\* what a loop iteration leaves behind: the window s..e, what the read gave
\* ("failed" | "empty" | "rows"), the rows it handed on, how many change
\* records were run against it and which of them raised (0: none)
Window(s, e, res, rows, n, err) ==
    [s |-> s, e |-> e, res |-> res, rows |-> rows, tried |-> n, err |-> err]

(***************************************************************************)
(* update_prev_entries_for_zone_chunked_fullread, the scan                 *)
(* (main.py 1209-1342); the handling of a candidate row is in UpdNextRow.. *)
(* UpdFinish above                                                         *)
(***************************************************************************)
\* 1233-1251: (re-)invocation: last_row = len(ws.col_values(1)), or 1 when
\* the read raises; return when last_row <= 1; start = 2; chunk_idx = 0
ScanBegin(colOk) ==
    /\ job = "update_scan" /\ spc \in {"u_call", "u_done"}
    /\ last_row' = IF colOk THEN nrows ELSE 1
    /\ spc' = IF last_row' <= 1 THEN "u_done" ELSE "u_scan"
    /\ start' = 2
    /\ chunk_idx' = 0
    /\ windows' = <<>>
    /\ win' = NoWin
    /\ scan_exit' = ""
    /\ UNCHANGED <<job, zi, sheets, row_count, csv, tgt_ws, target, max_row,
                   auction_col, seen_links, to_delete, target_rows_buffer,
                   ins_i, dels, applied, matches, zlog, nrows, chunk_size,
                   max_chunks, examined>>
    /\ UNCHANGED <<poolVars, retryVars, runVars, rowVars, mailVars, zoneVars, raceVars>>

\* 1254-1256: while start <= data_end, and the cap on chunks
ScanGoesOn ==
    /\ start <= last_row
    /\ ~ (max_chunks # NoCap /\ chunk_idx >= max_chunks)

\* 1254-1275, 1340: one window: read rows A{start}:J{end} (rows = [] when the
\* read raises), hand them to the candidate filter, chunk_idx += 1,
\* start = end + 1
ScanWindow(ok) ==
    /\ job = "update_scan" /\ spc = "u_scan"
    /\ ScanGoesOn
    /\ LET end  == WindowEnd(start, chunk_size, last_row)
           rows == IF ok THEN start..end ELSE {}
       IN  /\ win' = Window(start, end, IF ok THEN "rows" ELSE "failed", rows, 0, 0)
           /\ windows' = Append(windows, [s |-> start, e |-> end, ok |-> ok])
           /\ examined' = examined \cup rows
           /\ start' = next_start(end)
    /\ chunk_idx' = chunk_idx + 1
    /\ UNCHANGED <<job, spc, zi, sheets, row_count, csv, tgt_ws, target, max_row,
                   scan_exit, auction_col, seen_links, to_delete,
                   target_rows_buffer, ins_i, dels, applied, matches, zlog,
                   nrows, last_row, chunk_size, max_chunks>>
    /\ UNCHANGED <<poolVars, retryVars, runVars, rowVars, mailVars, zoneVars, raceVars>>

\* 1254-1256, 1342: the loop ends (table end or cap); return stats
ScanReturn ==
    /\ job = "update_scan" /\ spc = "u_scan"
    /\ ~ ScanGoesOn
    /\ scan_exit' = IF start > last_row THEN "end" ELSE "cap"
    /\ spc' = "u_done"
    /\ UNCHANGED <<job, zi, sheets, row_count, csv, tgt_ws, target, start,
                   max_row, win, auction_col, seen_links, to_delete,
                   target_rows_buffer, ins_i, dels, applied, matches, zlog,
                   nrows, last_row, chunk_size, max_chunks, chunk_idx, windows,
                   examined>>
    /\ UNCHANGED <<poolVars, retryVars, runVars, rowVars, mailVars, zoneVars, raceVars>>

\* the update scan is called on a table of nrows rows
ScanInit ==
    /\ PoolIdle
    /\ RetryIdle
    /\ RowIdle
    /\ MailIdle
    /\ ZoneIdle
    /\ RaceIdle
    /\ job = "update_scan"
    /\ spc = "u_call"
    /\ nrows \in 0..MaxRows
    /\ chunk_size \in 1..MaxChunkSize
    /\ max_chunks \in {NoCap} \cup 1..MaxChunks
    /\ last_row = 0
    /\ chunk_idx = 0
    /\ windows = <<>>
    /\ examined = {}
    /\ zi = 0
    /\ sheets = <<>>
    /\ row_count = <<>>
    /\ csv = <<>>
    /\ tgt_ws = {}
    /\ target = <<>>
    /\ start = 0
    /\ max_row = 0
    /\ win = NoWin
    /\ scan_exit = ""
    /\ auction_col = FALSE
    /\ seen_links = {}
    /\ to_delete = {}
    /\ target_rows_buffer = <<>>
    /\ ins_i = 0
    /\ dels = <<>>
    /\ applied = <<>>
    /\ matches = {}
    /\ zlog = <<>>
    /\ RunIdle

ScanNext ==
    \/ \E colOk \in BOOLEAN : ScanBegin(colOk)
    \/ \E ok \in BOOLEAN : ScanWindow(ok)
    \/ ScanReturn

\* repeated invocations of the update scan on one table; the scheduler of
\* main.py keeps re-running the zone, so a step that can be taken is taken
ScanLive == ScanInit /\ [][ScanNext]_vars /\ WF_vars(ScanNext)

(***************************************************************************)
(* Claims on the update scan.                                              *)
(***************************************************************************)
\* rows inside the windows read so far by the current invocation
Covered == UNION {windows[i].s .. windows[i].e : i \in 1..Len(windows)}

\* the last row an invocation may reach: N, or 1 + M * W under a cap of M
ScanLimit ==
    IF max_chunks = NoCap THEN last_row
    ELSE Min(last_row, 1 + max_chunks * chunk_size)

\* C12: the windows read by one invocation of the update scan start at row
\* 2, are contiguous and non-overlapping, hold at most W = chunk_size rows
\* each, number at most M = max_chunks, and when the invocation returns they
\* cover exactly the rows 2..min(N, 1 + M * W); row 1 is in no window.
C12_WindowsTileTheTable ==
    job = "update_scan" =>
        /\ \A i \in 1..Len(windows) :
              /\ windows[i].s = IF i = 1 THEN 2 ELSE windows[i - 1].e + 1
              /\ windows[i].s <= windows[i].e
              /\ windows[i].e - windows[i].s + 1 <= chunk_size
        /\ 1 \notin Covered
        /\ max_chunks # NoCap => Len(windows) <= max_chunks
        /\ spc = "u_done" => Covered = 2..ScanLimit

\* a capped invocation has returned on a table longer than M * W data rows
C12_Witness ==
    /\ job = "update_scan" /\ spc = "u_done"
    /\ max_chunks = 2 /\ chunk_size = 2
    /\ last_row > 1 + max_chunks * chunk_size
    /\ Len(windows) = max_chunks
    /\ Covered = 2..5

\* an invocation has returned after reading the column and every window
CleanScanDone ==
    /\ job = "update_scan" /\ spc = "u_done"
    /\ last_row = nrows
    /\ \A i \in 1..Len(windows) : windows[i].ok

\* C15: a window-capped update scan is resumable by re-invocation: on a
\* table that is not otherwise modified, invocations that keep running
\* (with reads that succeed) eventually have examined every row 2..N.
C15_ResumableByReinvocation ==
    ([]<>CleanScanDone) => <>(examined = 2..nrows)

(***************************************************************************)
(* upload_csv_to_sheet (sheet_automation.py 640-818) with the cleanup it   *)
(* runs first, clean_source_sheets (526-636)                               *)
(***************************************************************************)
\* frame of the update scan's own variables
scanOnly == <<nrows, last_row, chunk_size, max_chunks, chunk_idx, windows,
              examined>>

\* the locals of a zone's iteration are gone when the iteration ends
ZoneLocalsGone ==
    /\ start' = 0
    /\ max_row' = 0
    /\ win' = NoWin
    /\ scan_exit' = ""
    /\ auction_col' = FALSE
    /\ seen_links' = {}
    /\ to_delete' = {}
    /\ target_rows_buffer' = <<>>
    /\ ins_i' = 0
    /\ applied' = <<>>
    /\ matches' = {}
    /\ faults' = {}

\* a unit of the kinds K failed (K = {} when none did)
Fault(K) ==
    /\ faults' = faults \cup K
    /\ dirty' = (dirty \/ K # {})

\* 534 / 691: for z in zones
NextZone(i) == i + 1

\* a worksheet that cannot be opened ends the loop over the zones
SkipZone_return(i) == Len(zones) + 1

\* 537-539 / 694-696: except ...: continue
SkipZone(i) == NextZone(i)

\* 563-566 / 715-718: max_row = ws.row_count or 10000, and 10000 when
\* reading it raises (a row_count of 0 stands for both)
MaxRowOf(rc) == IF rc # 0 THEN rc ELSE DEFAULT_MAX_ROW

\* 649-669: CSV_FINAL missing, no client or no spreadsheet: return; else
\* clean_source_sheets(src_sh, zones)
UplBegin(ready) ==
    /\ job = "upload" /\ spc = "begin"
    /\ IF ready
       THEN spc' = "c_zone" /\ zi' = 1
       ELSE spc' = "returned" /\ zi' = zi
    /\ UNCHANGED <<job, sheets, row_count, csv, tgt_ws, target, start, max_row,
                   win, scan_exit, auction_col, seen_links, to_delete,
                   target_rows_buffer, ins_i, dels, applied, matches, zlog>>
    /\ UNCHANGED <<faults, dirty>>
    /\ UNCHANGED <<cut, input>>
    /\ UNCHANGED <<scanOnly, poolVars, retryVars, rowVars, mailVars, zoneVars, raceVars>>

\* 534-567: open the zone's worksheet (skip the zone when it raises), read
\* the header (no age filter when the read fails), start = 2, max_row
ClnOpenZone(ok, hdrOk) ==
    /\ job = "upload" /\ spc = "c_zone"
    /\ IF ok
       THEN /\ spc' = "c_scan"
            /\ zi' = zi
            /\ auction_col' = hdrOk
            /\ seen_links' = {}
            /\ to_delete' = {}
            /\ start' = 2
            /\ max_row' = MaxRowOf(row_count[zones[zi]])
            /\ win' = NoWin
            /\ scan_exit' = ""
       ELSE /\ zi' = SkipZone(zi)
            /\ spc' = IF zi' > Len(zones) THEN "tabs" ELSE "c_zone"
            /\ UNCHANGED <<auction_col, seen_links, to_delete, start, max_row,
                           win, scan_exit>>
    /\ UNCHANGED <<job, sheets, row_count, csv, tgt_ws, target,
                   target_rows_buffer, ins_i, dels, applied, matches, zlog>>
    /\ faults' = IF ok /\ ~ hdrOk THEN {"header"} ELSE {}
    /\ dirty' = (dirty \/ ~ ok \/ ~ hdrOk)
    /\ UNCHANGED <<cut, input>>
    /\ UNCHANGED <<scanOnly, poolVars, retryVars, rowVars, mailVars, zoneVars, raceVars>>

\* a window in which nothing is seen
ClnPopulated_none(t, s, e, age_filter) == {}

\* 585-588: the rows the two column reads return something for
ClnPopulated(t, s, e, age_filter) ==
    {r \in RowsIn(t, s, e) :
        strip(t[r].link) # "" \/ (age_filter /\ strip(t[r].date) # "")}

\* a cutoff one day early
IsStale_early(days) == days # NoDate /\ days >= STALE_DAYS - 1

\* 620-621: if d and (dt.date.today() - d).days >= 15
IsStale(days) == days # NoDate /\ days >= STALE_DAYS

\* a set of links that forgets
seen_links_add_none(seen, link) == seen

\* 616: seen_links.add(link)
seen_links_add(seen, link) == seen \cup {link}

\* 598-622: the loop over the rows of the chunk, in row order; c carries
\* seen_links and to_delete
RECURSIVE ClnRows(_, _, _, _)
ClnRows(t, rows, age_filter, c) ==
    IF rows = {} THEN c
    ELSE LET rownum == MinOf(rows)
             link   == strip(t[rownum].link)
             dup    == link # "" /\ link \in c.seen_links
             stale  == age_filter /\ IsStale(age_of[t[rownum].date])
         IN  ClnRows(t, rows \ {rownum}, age_filter,
                 [seen_links |-> IF link # ""
                                 THEN seen_links_add(c.seen_links, link)
                                 ELSE c.seen_links,
                  to_delete  |-> IF dup \/ stale THEN c.to_delete \cup {rownum}
                                 ELSE c.to_delete])

\* 569-624: one iteration of the cleanup scan
ClnChunk(readOk) ==
    /\ job = "upload" /\ spc = "c_scan"
    /\ start <= max_row /\ scan_exit = ""
    /\ LET end  == WindowEnd(start, SOURCE_CHUNK_SIZE, max_row)
           t    == sheets[zones[zi]]
           rows == ClnPopulated(t, start, end, auction_col)
           c    == ClnRows(t, rows, auction_col,
                           [seen_links |-> seen_links, to_delete |-> to_delete])
       IN  IF ~ readOk
           THEN /\ win' = Window(start, end, "failed", {}, 0, 0)
                /\ start' = next_start(end)
                /\ UNCHANGED <<scan_exit, seen_links, to_delete>>
           ELSE IF rows = {}
           THEN /\ win' = Window(start, end, "empty", {}, 0, 0)
                /\ IF TailExit(end)
                   THEN scan_exit' = "tail" /\ start' = start
                   ELSE scan_exit' = scan_exit /\ start' = next_start(end)
                /\ UNCHANGED <<seen_links, to_delete>>
           ELSE /\ win' = Window(start, end, "rows", rows, 0, 0)
                /\ seen_links' = c.seen_links
                /\ to_delete' = c.to_delete
                /\ start' = next_start(end)
                /\ UNCHANGED scan_exit
    /\ UNCHANGED <<job, spc, zi, sheets, row_count, csv, tgt_ws, target, max_row,
                   auction_col, target_rows_buffer, ins_i, dels, applied,
                   matches, zlog>>
    /\ Fault(IF readOk THEN {} ELSE {"read"})
    /\ UNCHANGED <<cut, input>>
    /\ UNCHANGED <<scanOnly, poolVars, retryVars, rowVars, mailVars, zoneVars, raceVars>>

\* 569, 592, 627-628: the scan loop is left; dels = sorted(to_delete,
\* reverse=True)
ClnScanEnd ==
    /\ job = "upload" /\ spc = "c_scan"
    /\ start > max_row \/ scan_exit = "tail"
    /\ scan_exit' = IF scan_exit = "tail" THEN "tail" ELSE "end"
    /\ dels' = sorted_reverse(to_delete)
    /\ applied' = <<>>
    /\ spc' = "c_delete"
    /\ UNCHANGED <<job, zi, sheets, row_count, csv, tgt_ws, target, start,
                   max_row, win, auction_col, seen_links, to_delete,
                   target_rows_buffer, ins_i, matches, zlog>>
    /\ UNCHANGED <<faults, dirty>>
    /\ UNCHANGED <<cut, input>>
    /\ UNCHANGED <<scanOnly, poolVars, retryVars, rowVars, mailVars, zoneVars, raceVars>>

\* 631-634 / 805-809: ok = retry_or_none(ws.delete_rows, r); a failed
\* delete is skipped
DeleteStep(ok) ==
    LET z == zones[zi]
        r == Head(dels)
    IN  /\ dels # <<>>
        /\ dels' = Tail(dels)
        /\ applied' = Append(applied, [op |-> "delete", at |-> r, n |-> 1, ok |-> ok])
        /\ IF ok
           THEN /\ sheets' = [sheets EXCEPT ![z] = delete_rows(@, r)]
                /\ row_count' = [row_count EXCEPT ![z] = IF @ > 0 THEN @ - 1 ELSE @]
           ELSE UNCHANGED <<sheets, row_count>>

\* 630-634: for r in dels
ClnDelete(ok) ==
    /\ job = "upload" /\ spc = "c_delete"
    /\ DeleteStep(ok)
    /\ UNCHANGED <<job, spc, zi, csv, tgt_ws, target, start, max_row, win,
                   scan_exit, auction_col, seen_links, to_delete,
                   target_rows_buffer, ins_i, matches, zlog>>
    /\ Fault(IF ok THEN {} ELSE {"delete"})
    /\ UNCHANGED <<cut, input>>
    /\ UNCHANGED <<scanOnly, poolVars, retryVars, rowVars, mailVars, zoneVars, raceVars>>

\* 636, 534: the zone is done; next zone, or back in upload_csv_to_sheet
ClnZoneEnd ==
    /\ job = "upload" /\ spc = "c_delete"
    /\ dels = <<>>
    /\ zi' = NextZone(zi)
    /\ spc' = IF zi' > Len(zones) THEN "tabs" ELSE "c_zone"
    /\ ZoneLocalsGone
    /\ UNCHANGED <<job, sheets, row_count, csv, tgt_ws, target, dels, zlog>>
    /\ UNCHANGED dirty
    /\ UNCHANGED <<cut, input>>
    /\ UNCHANGED <<scanOnly, poolVars, retryVars, rowVars, mailVars, zoneVars, raceVars>>

\* the archive tabs that get prepared: all, or all but the first zone's
PreparedSets == {Range(zones), Range(zones) \ {zones[1]}}

\* 671-689: prepare the archive tabs; a tab that cannot be prepared is
\* left out of tgt_ws
UplTabs(prepared) ==
    /\ job = "upload" /\ spc = "tabs"
    /\ tgt_ws' = prepared
    /\ zi' = 1
    /\ spc' = "zone"
    /\ UNCHANGED <<job, sheets, row_count, csv, target, start, max_row, win,
                   scan_exit, auction_col, seen_links, to_delete,
                   target_rows_buffer, ins_i, dels, applied, matches, zlog>>
    /\ faults' = {}
    /\ dirty' = (dirty \/ prepared # Range(zones))
    /\ UNCHANGED <<cut, input>>
    /\ UNCHANGED <<scanOnly, poolVars, retryVars, rowVars, mailVars, zoneVars, raceVars>>

\* 691-719: open the zone's worksheet (skip the zone when it raises),
\* to_delete = set(), target_rows_buffer = [], start = 2, max_row
UplOpenZone(ok) ==
    /\ job = "upload" /\ spc = "zone"
    /\ IF ok
       THEN /\ spc' = "scan"
            /\ zi' = zi
            /\ to_delete' = {}
            /\ target_rows_buffer' = <<>>
            /\ matches' = {}
            /\ applied' = <<>>
            /\ start' = 2
            /\ max_row' = MaxRowOf(row_count[zones[zi]])
            /\ win' = NoWin
            /\ scan_exit' = ""
            /\ zlog' = zlog
       ELSE /\ zi' = SkipZone(zi)
            /\ spc' = IF zi' > Len(zones) THEN "done" ELSE "zone"
            /\ zlog' = Append(zlog, zones[zi])
            /\ UNCHANGED <<to_delete, target_rows_buffer, matches, applied,
                           start, max_row, win, scan_exit>>
    /\ UNCHANGED <<job, sheets, row_count, csv, tgt_ws, target, auction_col,
                   seen_links, ins_i, dels>>
    /\ faults' = {}
    /\ dirty' = (dirty \/ ~ ok)
    /\ UNCHANGED <<cut, input>>
    /\ UNCHANGED <<scanOnly, poolVars, retryVars, rowVars, mailVars, zoneVars, raceVars>>

\* 741-750: the rows that enter chunk_map: an address or any A:F cell
UplPopulated(t, s, e) ==
    {r \in RowsIn(t, s, e) :
        strip(t[r].addr) # "" \/ t[r].link # "" \/ t[r].ob # ""}

\* 720-786: one iteration of the upload scan: read the chunk, build
\* chunk_map, run every record of the CSV against it.  The batches of
\* CSV_BATCH_SIZE records share chunk_map, to_delete and the buffer, so the
\* calls of 773 and 779 together are one pass over the file; when the file
\* cannot be read (783) no record is run.
UplChunk(readOk, csvOk, err) ==
    /\ job = "upload" /\ spc = "scan"
    /\ start <= max_row /\ scan_exit = ""
    /\ LET end  == WindowEnd(start, SOURCE_CHUNK_SIZE, max_row)
           z    == zones[zi]
           t    == sheets[z]
           rows == UplPopulated(t, start, end)
           m0   == [chunk_map |-> rows, to_delete |-> to_delete,
                    buffer |-> target_rows_buffer, matches |-> matches]
           m    == IF csvOk
                   THEN match_csv_batch_against_chunk(z, t, start, csv, 1, err, m0)
                   ELSE m0
       IN  IF ~ readOk
           THEN /\ win' = Window(start, end, "failed", {}, 0, 0)
                /\ start' = next_start(end)
                /\ UNCHANGED <<scan_exit, to_delete, target_rows_buffer, matches>>
           ELSE IF rows = {}
           THEN /\ win' = Window(start, end, "empty", {}, 0, 0)
                /\ IF TailExit(end)
                   THEN scan_exit' = "tail" /\ start' = start
                   ELSE scan_exit' = scan_exit /\ start' = next_start(end)
                /\ UNCHANGED <<to_delete, target_rows_buffer, matches>>
           ELSE /\ win' = IF csvOk
                          THEN Window(start, end, "rows", rows, Len(csv), err)
                          ELSE Window(start, end, "rows", rows, 0, 0)
                /\ to_delete' = m.to_delete
                /\ target_rows_buffer' = m.buffer
                /\ matches' = m.matches
                /\ start' = next_start(end)
                /\ UNCHANGED scan_exit
    /\ UNCHANGED <<job, spc, zi, sheets, row_count, csv, tgt_ws, target, max_row,
                   auction_col, seen_links, ins_i, dels, applied, zlog>>
    /\ Fault(IF ~ readOk THEN {"read"}
             ELSE IF UplPopulated(sheets[zones[zi]], start,
                         WindowEnd(start, SOURCE_CHUNK_SIZE, max_row)) = {} THEN {}
             ELSE IF ~ csvOk THEN {"csv"}
             ELSE IF err # 0 THEN {"record"} ELSE {})
    /\ UNCHANGED <<cut, input>>
    /\ UNCHANGED <<scanOnly, poolVars, retryVars, rowVars, mailVars, zoneVars, raceVars>>

\* 720, 756, 789-790: the scan loop is left; i = 0
UplScanEnd ==
    /\ job = "upload" /\ spc = "scan"
    /\ start > max_row \/ scan_exit = "tail"
    /\ scan_exit' = IF scan_exit = "tail" THEN "tail" ELSE "end"
    /\ ins_i' = 0
    /\ spc' = "insert"
    /\ UNCHANGED <<job, zi, sheets, row_count, csv, tgt_ws, target, start,
                   max_row, win, auction_col, seen_links, to_delete,
                   target_rows_buffer, dels, applied, matches, zlog>>
    /\ UNCHANGED <<faults, dirty>>
    /\ UNCHANGED <<cut, input>>
    /\ UNCHANGED <<scanOnly, poolVars, retryVars, rowVars, mailVars, zoneVars, raceVars>>

\* a loop whose batches overlap
next_batch_overlap(i) == i + 1

\* 790: for i in range(0, len(target_rows_buffer), SHEETS_BATCH_SIZE)
next_batch(i) == i + SHEETS_BATCH_SIZE

\* 789-790: if target_rows_buffer and z in tgt_ws: for i in range(...)
InsertGoesOn ==
    /\ target_rows_buffer # <<>>
    /\ zones[zi] \in tgt_ws
    /\ ins_i < Len(target_rows_buffer)

\* 790-797: one batch: part = target_rows_buffer[i:i+SHEETS_BATCH_SIZE],
\* inserted at row 2 of the archive tab; a failed batch is skipped
UplInsert(ok) ==
    /\ job = "upload" /\ spc = "insert"
    /\ InsertGoesOn
    /\ LET z    == zones[zi]
           part == SubSeq(target_rows_buffer, ins_i + 1,
                          Min(ins_i + SHEETS_BATCH_SIZE, Len(target_rows_buffer)))
       IN  /\ applied' = Append(applied, [op |-> "insert", at |-> ins_i,
                                          n |-> Len(part), ok |-> ok])
           /\ target' = IF ok THEN [target EXCEPT ![z] = part \o @] ELSE target
    /\ ins_i' = next_batch(ins_i)
    /\ UNCHANGED <<job, spc, zi, sheets, row_count, csv, tgt_ws, start, max_row,
                   win, scan_exit, auction_col, seen_links, to_delete,
                   target_rows_buffer, dels, matches, zlog>>
    /\ Fault(IF ok THEN {} ELSE {"insert"})
    /\ UNCHANGED <<cut, input>>
    /\ UNCHANGED <<scanOnly, poolVars, retryVars, rowVars, mailVars, zoneVars, raceVars>>

\* 790, 801-802: the insert loop is over (or was not entered);
\* dels = sorted(to_delete, reverse=True)
UplInsertEnd ==
    /\ job = "upload" /\ spc = "insert"
    /\ ~ InsertGoesOn
    /\ dels' = sorted_reverse(to_delete)
    /\ spc' = "delete"
    /\ UNCHANGED <<job, zi, sheets, row_count, csv, tgt_ws, target, start,
                   max_row, win, scan_exit, auction_col, seen_links, to_delete,
                   target_rows_buffer, ins_i, applied, matches, zlog>>
    /\ UNCHANGED <<faults, dirty>>
    /\ UNCHANGED <<cut, input>>
    /\ UNCHANGED <<scanOnly, poolVars, retryVars, rowVars, mailVars, zoneVars, raceVars>>

\* 804-810: for r in dels
UplDelete(ok) ==
    /\ job = "upload" /\ spc = "delete"
    /\ DeleteStep(ok)
    /\ UNCHANGED <<job, spc, zi, csv, tgt_ws, target, start, max_row, win,
                   scan_exit, auction_col, seen_links, to_delete,
                   target_rows_buffer, ins_i, matches, zlog>>
    /\ Fault(IF ok THEN {} ELSE {"delete"})
    /\ UNCHANGED <<cut, input>>
    /\ UNCHANGED <<scanOnly, poolVars, retryVars, rowVars, mailVars, zoneVars, raceVars>>

\* 812-816, 691: the zone's summary; next zone, or the final summary (818)
UplZoneEnd ==
    /\ job = "upload" /\ spc = "delete"
    /\ dels = <<>>
    /\ zlog' = Append(zlog, zones[zi])
    /\ zi' = NextZone(zi)
    /\ spc' = IF zi' > Len(zones) THEN "done" ELSE "zone"
    /\ ZoneLocalsGone
    /\ UNCHANGED <<job, sheets, row_count, csv, tgt_ws, target, dels>>
    /\ UNCHANGED dirty
    /\ UNCHANGED <<cut, input>>
    /\ UNCHANGED <<scanOnly, poolVars, retryVars, rowVars, mailVars, zoneVars, raceVars>>

\* 720-786 when every call succeeds: the scan of the zone's table from
\* window s on; m carries to_delete, target_rows_buffer and the matches
RECURSIVE upload_scan(_, _, _, _, _, _)
upload_scan(zone, t, recs, max, s, m) ==
    IF s > max THEN m
    ELSE LET e    == WindowEnd(s, SOURCE_CHUNK_SIZE, max)
             rows == UplPopulated(t, s, e)
         IN  IF rows = {}
             THEN IF TailExit(e) THEN m
                  ELSE upload_scan(zone, t, recs, max, next_start(e), m)
             ELSE upload_scan(zone, t, recs, max, next_start(e),
                     match_csv_batch_against_chunk(zone, t, s, recs, 1, 0,
                         [m EXCEPT !.chunk_map = rows]))

\* 789-798 when every call succeeds: the batches go to the top of the tab
RECURSIVE insert_all(_, _, _)
insert_all(tab, buffer, i) ==
    IF i >= Len(buffer) THEN tab
    ELSE insert_all(SubSeq(buffer, i + 1,
                           Min(i + SHEETS_BATCH_SIZE, Len(buffer))) \o tab,
                    buffer, next_batch(i))

\* 801-810 when every call succeeds
RECURSIVE delete_all(_, _)
delete_all(t, ds) ==
    IF ds = <<>> THEN t ELSE delete_all(delete_rows(t, Head(ds)), Tail(ds))

\* 691-810 when every call succeeds: what the upload pass makes of a
\* zone's table t with row count rc and of its empty archive tab
upload_zone(zone, t, rc, recs) ==
    LET m == upload_scan(zone, t, recs, MaxRowOf(rc), 2,
                 [chunk_map |-> {}, to_delete |-> {}, buffer |-> <<>>,
                  matches |-> {}])
    IN  [source  |-> delete_all(t, sorted_reverse(m.to_delete)),
         archive |-> insert_all(<<>>, m.buffer, 0)]

\* the phase the upload job is in
Phase ==
    IF spc \in {"c_zone", "c_scan", "c_delete"} THEN "cleanup"
    ELSE IF spc = "done" THEN "done" ELSE "upload"

\* 901-910 (main, choice "upload"): the script is run again on the same
\* CSV_FINAL, after the previous run came to its end or was killed in the
\* middle of a loop of writes (a kill at another point leaves the tables as
\* one of these points does).  The tables keep what was written; every
\* local of the previous run is gone.
Rerun ==
    /\ job = "upload" /\ cut = ""
    /\ spc \in {"c_delete", "insert", "delete", "done"}
    /\ cut' = Phase
    /\ spc' = "begin"
    /\ zi' = 0
    /\ tgt_ws' = {}
    /\ dels' = <<>>
    /\ zlog' = <<>>
    /\ ZoneLocalsGone
    /\ UNCHANGED <<job, sheets, row_count, csv, target, dirty, input>>
    /\ UNCHANGED <<scanOnly, poolVars, retryVars, rowVars, mailVars, zoneVars, raceVars>>

\* upload_csv_to_sheet is called on one of the scenarios
UploadInit ==
    /\ PoolIdle
    /\ RetryIdle
    /\ RowIdle
    /\ MailIdle
    /\ ZoneIdle
    /\ RaceIdle
    /\ job = "upload"
    /\ spc = "begin"
    /\ zi = 0
    /\ \E sc \in Scenarios :
          /\ sheets = sc.sheets
          /\ row_count = sc.row_count
          /\ csv = sc.csv
          /\ input = sc
    /\ faults = {}
    /\ dirty = FALSE
    /\ cut = ""
    /\ tgt_ws = {}
    /\ target = [z \in Range(zones) |-> <<>>]
    /\ start = 0
    /\ max_row = 0
    /\ win = NoWin
    /\ scan_exit = ""
    /\ auction_col = FALSE
    /\ seen_links = {}
    /\ to_delete = {}
    /\ target_rows_buffer = <<>>
    /\ ins_i = 0
    /\ dels = <<>>
    /\ applied = <<>>
    /\ matches = {}
    /\ zlog = <<>>
    /\ nrows = 0
    /\ last_row = 0
    /\ chunk_size = 0
    /\ max_chunks = 0
    /\ chunk_idx = 0
    /\ windows = <<>>
    /\ examined = {}

UploadNext ==
    \/ \E ready \in BOOLEAN : UplBegin(ready)
    \/ \E ok, hdrOk \in BOOLEAN : ClnOpenZone(ok, hdrOk)
    \/ \E readOk \in BOOLEAN : ClnChunk(readOk)
    \/ ClnScanEnd
    \/ \E ok \in BOOLEAN : ClnDelete(ok)
    \/ ClnZoneEnd
    \/ \E prepared \in PreparedSets : UplTabs(prepared)
    \/ \E ok \in BOOLEAN : UplOpenZone(ok)
    \/ \E readOk, csvOk \in BOOLEAN : \E err \in RowErrors(Len(csv)) :
          UplChunk(readOk, csvOk, err)
    \/ UplScanEnd
    \/ \E ok \in BOOLEAN : UplInsert(ok)
    \/ UplInsertEnd
    \/ \E ok \in BOOLEAN : UplDelete(ok)
    \/ UplZoneEnd
    \/ Rerun

\* the sheet jobs: one run of the upload job, or invocations of the update
\* scan
SheetInit == ScanInit \/ UploadInit

SheetNext == ScanNext \/ UploadNext

SheetSpec == SheetInit /\ [][SheetNext]_vars

(***************************************************************************)
(* Claims on the chunked scans of the sheet jobs.                          *)
(***************************************************************************)
\* a scan loop is running or has been left, with its locals still there
InScan ==
    \/ job = "update_scan" /\ spc \in {"u_scan", "u_done"}
    \/ job = "upload" /\ spc \in {"c_scan", "c_delete", "scan", "insert", "delete"}

\* the scan loop has been left
ScanOver ==
    \/ job = "update_scan" /\ spc = "u_done"
    \/ job = "upload" /\ spc \in {"c_delete", "insert", "delete"}

\* the loop condition of the scan is false (table end, or the cap on chunks)
ScanExhausted ==
    IF job = "update_scan" THEN ~ ScanGoesOn ELSE start > max_row

\* C13: in the update scan, the cleanup scan and the upload scan, a failed
\* read of a window gives no rows for that window, the next window starts
\* at the row after it, and the scan is left only when the table (or the
\* cap on windows) is exhausted: a failed read never ends the scan.
C13_FailedReadSkipsWindow ==
    (InScan /\ win.res = "failed") =>
        /\ win.rows = {} /\ win.tried = 0
        /\ start = win.e + 1
        /\ scan_exit # "tail"
        /\ ScanOver => ScanExhausted

\* the cleanup scan goes on after a failed read
C13_Witness ==
    /\ job = "upload" /\ spc = "c_scan"
    /\ win.res = "failed"
    /\ start <= max_row
    /\ DOMAIN sheets[zones[zi]] # {}

\* C14: in the cleanup scan and the upload scan, a window that was read and
\* holds no populated row ends the scan if and only if its last row is
\* beyond 5000; when it ends at or before 5000 the scan goes to the next
\* window; a failed read is never the tail signal.
C14_TailExitOnlyPast5000 ==
    (job = "upload" /\ InScan) =>
        /\ win.res = "empty" =>
              /\ (scan_exit = "tail") <=> (win.e > TAIL_EXIT_ROW)
              /\ win.e <= TAIL_EXIT_ROW => start = win.e + 1
        /\ scan_exit = "tail" => win.res = "empty"

\* the upload scan has left a table at an empty window past row 5000, with
\* a populated row further down
C14_Witness ==
    /\ job = "upload" /\ spc = "insert"
    /\ scan_exit = "tail"
    /\ win.e > TAIL_EXIT_ROW
    /\ \E r \in DOMAIN sheets[zones[zi]] : r > win.e

(***************************************************************************)
(* Claims on the matcher and the planner of the upload job.                *)
(***************************************************************************)
\* the zone's upload scan is running or over, its deletes not yet started:
\* the row numbers of matches and to_delete are those of sheets
Staging == job = "upload" /\ spc \in {"scan", "insert"}

\* the table of the zone being processed
ZoneTable == sheets[zones[zi]]

\* matches made in the window that was read last
MatchesInWin == {m \in matches : m.chunk = win.s}

\* rows of the last window that change record i can match
CanMatch(i) == {r \in win.rows : ZoneTable[r] \in matching[csv[i]]}

\* C16: within one zone pass no sheet row is matched by more than one
\* change record; when two change records have the same normalized address
\* and the chunk holds a single row that either (and no third record) can
\* match, exactly one of the two is matched in that chunk.
C16_RowMatchedAtMostOnce ==
    Staging =>
        /\ \A a, b \in matches : a.row = b.row => a = b
        /\ (win.res = "rows" /\ win.tried = Len(csv)) =>
              \A i, j \in 1..Len(csv) :
                 ( /\ i < j
                   /\ parsed[csv[i]].csv_norm = parsed[csv[j]].csv_norm
                   /\ Cardinality(CanMatch(i)) = 1
                   /\ CanMatch(j) = CanMatch(i)
                   /\ \A k \in 1..Len(csv) \ {i, j} : CanMatch(k) \cap CanMatch(i) = {} )
                 => Cardinality({m \in MatchesInWin : m.rec \in {i, j}}) = 1

\* a sold and a removed record with the same normalized address met one row
C16_Witness ==
    /\ Staging
    /\ csv = <<SoldOak, RemovedOak>>
    /\ win.res = "rows" /\ win.tried = 2 /\ win.err = 0
    /\ win.rows = {2}
    /\ matches = {[rec |-> 1, row |-> 2, chunk |-> 2, archived |-> TRUE]}

\* C17: for each change record the matcher finds at most one matching row
\* in a zone pass: over all chunks of the zone one change record stages at
\* most one deletion and at most one archive insertion.
C17_OneMatchPerRecord ==
    Staging => \A a, b \in matches : a.rec = b.rec => a = b

C19_ArchiveIffSurplus ==
    Staging =>
        /\ \A m \in matches :
              LET fb == money_to_int_or_none(strip(csv[m.rec].final_bid))
                  ob == money_to_int_or_none(ZoneTable[m.row].ob)
              IN  m.archived <=>
                     /\ lower(strip(csv[m.rec].type)) = "sold to 3rd party"
                     /\ fb # NoneInt /\ ob # NoneInt
                     /\ fb - ob >= 100
        /\ Len(target_rows_buffer) = Cardinality({m \in matches : m.archived})
        /\ \A k \in 1..Len(target_rows_buffer) :
              LET a == target_rows_buffer[k]
              IN  /\ a.surplus = money_to_int_or_none(a.final_bid)
                                 - money_to_int_or_none(a.ob)
                  /\ a.surplus >= 100
                  /\ \E m \in matches :
                        /\ m.archived
                        /\ ZoneTable[m.row].link = a.link
                        /\ strip(csv[m.rec].final_bid) = a.final_bid

\* a sale of $200,100.99 on an opening bid of $200,000 was staged with a
\* surplus of exactly 100
C19_Witness ==
    /\ Staging
    /\ Len(target_rows_buffer) = 1
    /\ target_rows_buffer[1].surplus = 100
    /\ target_rows_buffer[1].final_bid = "$200,100.99"
    /\ target_rows_buffer[1].ob = "$200,000"

\* delete calls made for the zone so far
Deletes == {applied[k] : k \in {n \in 1..Len(applied) : applied[n].op = "delete"}}

\* C20: every matched source row is staged for deletion, whatever the type
\* and whether or not an archive row was staged (bids that do not parse, a
\* surplus below 100, a missing archive tab), and the staged deletions are
\* all issued.
C20_MatchedRowsAlwaysStaged ==
    (job = "upload" /\ spc \in {"scan", "insert", "delete"}) =>
        /\ {m.row : m \in matches} = to_delete
        /\ (spc = "delete" /\ dels = <<>>) => {d.at : d \in Deletes} = to_delete

\* a sold record whose row has an opening bid of TBD: no archive row, no
\* archive tab for the zone, and the row was deleted
C20_Witness ==
    /\ job = "upload" /\ spc = "delete" /\ dels = <<>>
    /\ zones[zi] \notin tgt_ws
    /\ csv = <<NoStateOak, SoldOak>>
    /\ matches = {[rec |-> 2, row |-> 4, chunk |-> 2, archived |-> FALSE]}
    /\ target_rows_buffer = <<>>
    /\ applied = <<[op |-> "delete", at |-> 4, n |-> 1, ok |-> TRUE]>>

(***************************************************************************)
(* Claim on the failure isolation of the upload pass.                      *)
(***************************************************************************)
\* rows of the last window already consumed by the records before record j
TakenBefore(j) == {m.row : m \in {x \in MatchesInWin : x.rec < j}}

\* record j belongs to the zone and a row of the last window is left for it
Owed(j) ==
    /\ parsed[csv[j]].z = zones[zi]
    /\ parsed[csv[j]].csv_norm # ""
    /\ \E r \in win.rows \ TakenBefore(j) : ZoneTable[r] \in matching[csv[j]]

\* positions of target_rows_buffer handed to an insert call
Offered ==
    UNION {(applied[k].at + 1)..(applied[k].at + applied[k].n) :
              k \in {n \in 1..Len(applied) : applied[n].op = "insert"}}

\* C11: in the upload pass a failing unit is skipped and the rest of the
\* pass is processed: a zone whose worksheet cannot be opened does not stop
\* the later zones; a failed chunk read does not end the scan (the scan ends
\* only at the table's end or at the tail exit); a record that raises does
\* not keep the other records from being matched against the chunk; a
\* failed insert batch does not keep the later batches from being sent; a
\* failed row delete does not keep the other staged rows from being tried.
C11_FailedUnitIsSkipped ==
    job = "upload" =>
        /\ spc = "done" => zlog = zones
        /\ spc \in {"insert", "delete"} =>
              \/ scan_exit = "tail" /\ win.res = "empty" /\ win.e > TAIL_EXIT_ROW
              \/ scan_exit = "end" /\ (max_row < 2 \/ win.e = max_row)
        /\ (Staging /\ win.res = "rows" /\ win.tried = Len(csv)) =>
              \A j \in 1..Len(csv) :
                 (j # win.err /\ Owed(j)) => \E m \in MatchesInWin : m.rec = j
        /\ spc = "delete" =>
              Offered = IF zones[zi] \in tgt_ws
                        THEN 1..Len(target_rows_buffer)
                        ELSE {}
        /\ (spc = "delete" /\ dels = <<>>) =>
              {d.at : d \in Deletes} = to_delete

\* a zone pass in which the first insert batch failed and the second was
\* sent, and a delete failed and the next one was made
C11_Witness ==
    /\ job = "upload" /\ spc = "delete" /\ dels = <<>>
    /\ Len(applied) >= 4
    /\ applied[1].op = "insert" /\ ~ applied[1].ok
    /\ applied[2].op = "insert" /\ applied[2].ok
    /\ \E k \in 3..(Len(applied) - 1) :
          /\ applied[k].op = "delete" /\ ~ applied[k].ok
          /\ applied[k + 1].op = "delete" /\ applied[k + 1].ok

(***************************************************************************)
(* Claims on the order of the mutations of a zone.                         *)
(***************************************************************************)
\* the calls made for the zone so far, by kind
DeleteCalls == SelectSeq(applied, LAMBDA a : a.op = "delete")

InsertCalls == SelectSeq(applied, LAMBDA a : a.op = "insert")

\* the positions of target_rows_buffer that insert call k carried
Batch(k) == (InsertCalls[k].at + 1)..(InsertCalls[k].at + InsertCalls[k].n)

\* C21: in the cleanup pass and in the upload pass the single-row delete
\* calls of a zone are made in strictly descending row-number order, every
\* staged row number at most once, and when the loop is over every staged
\* row number was tried ({5, 10, 3} is applied as 10, 5, 3).
C21_DeletesDescending ==
    (job = "upload" /\ spc \in {"c_delete", "delete"}) =>
        /\ \A i, j \in 1..Len(DeleteCalls) :
              i < j => DeleteCalls[i].at > DeleteCalls[j].at
        /\ \A i \in 1..Len(DeleteCalls) : DeleteCalls[i].at \in to_delete
        /\ dels = <<>> => Len(DeleteCalls) = Cardinality(to_delete)
        /\ sorted_reverse({5, 10, 3}) = <<10, 5, 3>>

\* the cleanup of a zone staged rows 4 (stale) and 5 (duplicate) and has
\* deleted 5, then 4
C21_Witness ==
    /\ job = "upload" /\ spc = "c_delete" /\ dels = <<>>
    /\ to_delete = {4, 5}
    /\ Len(applied) = 2
    /\ applied[1].at = 5 /\ applied[2].at = 4

\* C22: within one zone's upload pass every insert batch is issued before
\* the first delete; a batch carries at most SHEETS_BATCH_SIZE staged rows,
\* no staged row is in two batches, and once the deletes begin every staged
\* row of a zone that has an archive tab was in a batch.
C22_InsertsBeforeDeletes ==
    (job = "upload" /\ spc \in {"insert", "delete"}) =>
        /\ \A i, j \in 1..Len(applied) :
              (applied[i].op = "delete" /\ i < j) => applied[j].op = "delete"
        /\ spc = "insert" => DeleteCalls = <<>>
        /\ \A k \in 1..Len(InsertCalls) :
              /\ InsertCalls[k].n >= 1
              /\ InsertCalls[k].n <= SHEETS_BATCH_SIZE
              /\ Batch(k) \subseteq 1..Len(target_rows_buffer)
        /\ \A k, l \in 1..Len(InsertCalls) : k # l => Batch(k) \cap Batch(l) = {}
        /\ (spc = "delete" /\ zones[zi] \in tgt_ws) =>
              UNION {Batch(k) : k \in 1..Len(InsertCalls)}
                 = 1..Len(target_rows_buffer)

\* three staged rows went out in two batches, then the first delete was made
C22_Witness ==
    /\ job = "upload" /\ spc = "delete"
    /\ Len(target_rows_buffer) = 3
    /\ Len(InsertCalls) = 2
    /\ Len(DeleteCalls) = 1
    /\ applied[3].op = "delete"

(***************************************************************************)
(* Claims on the cleanup pass.                                             *)
(***************************************************************************)
\* the scan of the zone's cleanup is over and no delete was made yet: the
\* row numbers of to_delete are those of the table
CleanupScanned == job = "upload" /\ spc = "c_delete" /\ applied = <<>>

\* the cleanup of the zone is over
CleanupOver == job = "upload" /\ spc = "c_delete" /\ dels = <<>>

\* no populated row lies at or below the window the scan stopped at
NothingSkipped ==
    scan_exit = "tail" => \A r \in DOMAIN ZoneTable : r < win.s

\* row r of table t is not the first row with its Link
Duplicate(t, r) ==
    /\ t[r].link # ""
    /\ \E q \in DOMAIN t : q < r /\ t[q].link = t[r].link

\* C23: after the cleanup of a zone in which every window read and every
\* delete succeeded and no tail exit skipped a populated row, no two
\* remaining rows have the same non-empty Link; and the first row of a Link
\* is staged for deletion only if it is stale.
C23_DuplicatesPrunedKeepingFirst ==
    /\ (CleanupOver /\ faults \cap {"read", "delete"} = {} /\ NothingSkipped) =>
          \A r, q \in DOMAIN ZoneTable :
             (r # q /\ ZoneTable[r].link # "") =>
                ZoneTable[r].link # ZoneTable[q].link
    /\ CleanupScanned =>
          \A r \in to_delete :
             ~ Duplicate(ZoneTable, r) =>
                /\ parse_sheet_date(ZoneTable[r].date) # NoneInt
                /\ TODAY - parse_sheet_date(ZoneTable[r].date) >= 15

\* of two rows with the Link L1 the first one is left, the second is gone,
\* and so is the stale row
C23_Witness ==
    /\ CleanupOver /\ faults = {} /\ cut = ""
    /\ zones[zi] = "EAST"
    /\ DOMAIN input.sheets["EAST"] = {2, 3, 4, 5}
    /\ input.sheets["EAST"][5] = RowOakAgain
    /\ DOMAIN ZoneTable = {2, 3}
    /\ ZoneTable[2] = RowOak
    /\ ZoneTable[3] = RowPine

\* the rows of the zone's table that are no duplicates are staged exactly
\* when their date parses and is 15 or more days old
StaleRule ==
    \A r \in DOMAIN ZoneTable :
       ~ Duplicate(ZoneTable, r) =>
          ( r \in to_delete <=>
               /\ parse_sheet_date(ZoneTable[r].date) # NoneInt
               /\ TODAY - parse_sheet_date(ZoneTable[r].date) >= 15 )

Doomed(t) ==
    {r \in DOMAIN t :
        \/ Duplicate(t, r)
        \/ /\ parse_sheet_date(t[r].date) # NoneInt
           /\ TODAY - parse_sheet_date(t[r].date) >= 15}

\* table t without the rows D, the rows below a removed row moved up
Without(t, D) ==
    LET pos(r) == r - Cardinality({d \in D : d < r})
    IN  [k \in {pos(r) : r \in DOMAIN t \ D} |->
            t[CHOOSE r \in DOMAIN t \ D : pos(r) = k]]

\* the table of zone z after one cleanup that nothing disturbed
CleanTable(z) == Without(input.sheets[z], Doomed(input.sheets[z]))

CleanCount(z) ==
    IF input.row_count[z] > 0
    THEN input.row_count[z] - Cardinality(Doomed(input.sheets[z]))
    ELSE input.row_count[z]

\* the tables of zone z after one upload job that nothing disturbed
JobOutcome(z) == upload_zone(z, CleanTable(z), CleanCount(z), csv)

\* C27: an interrupted upload pass is safe to resume by a full re-scan.  When
\* the job is killed after some of a zone's insert batches and deletes and
\* is run again on the same CSV, and no call fails, the source tables and
\* the archive tabs end as one undisturbed run leaves them.
C27_UploadResumable ==
    (job = "upload" /\ spc = "done" /\ ~ dirty /\ cut \in {"", "upload"}) =>
        \A z \in Range(zones) :
           /\ sheets[z] = JobOutcome(z).source
           /\ target[z] = JobOutcome(z).archive

\* C28: the cleanup is idempotent and convergent for a fixed today.  When
\* no call fails, a cleanup killed after some of its deletes and run again
\* leaves the zone's table as one undisturbed cleanup does, and the cleanup
\* of a table that was cleaned before stages nothing.
C28_CleanupConverges ==
    /\ (CleanupOver /\ ~ dirty /\ cut \in {"", "cleanup"} /\ NothingSkipped) =>
          ZoneTable = CleanTable(zones[zi])
    /\ (CleanupScanned /\ ~ dirty /\ cut \in {"upload", "done"}) =>
          to_delete = {}

\* the first run was killed after deleting the duplicate row 5; the second
\* run found the stale row 4 alone and removed it
C28_Witness ==
    /\ CleanupOver /\ ~ dirty /\ cut = "cleanup"
    /\ zones[zi] = "EAST"
    /\ to_delete = {4}
    /\ Len(applied) = 1
    /\ DOMAIN input.sheets["EAST"] = {2, 3, 4, 5}
    /\ DOMAIN ZoneTable = {2, 3}

(***************************************************************************)
(* The row of one link under the insert pass and the update pass           *)
(* (main.py: scrape_row_with_driver, insert_new_links_first,               *)
(* _is_candidate_row_full, update_prev_entries_for_zone_chunked_fullread). *)
(* Of the ten columns the model keeps Opening Bid, Est. Market Value,      *)
(* Auction Start Date, Auction Start Time, Completed and Added Date.       *)
(***************************************************************************)
\* passes and visits followed for one link
MaxVisits == 2

\* days the model's clock can move on
MaxDays == 2

LETTERS == UPPERS \o LOWERS

\* the position of the first occurrence of sep in s, 0 when there is none
FindSub(s, sep) ==
    LET hits == {i \in 1..(Len(s) - Len(sep) + 1) :
                    SubSeq(s, i, i + Len(sep) - 1) = sep}
    IN  IF hits = {} THEN 0 ELSE MinOf(hits)

\* s.split(sep, 1)[0]
SplitHead(s, sep) ==
    IF FindSub(s, sep) = 0 THEN s ELSE SubSeq(s, 1, FindSub(s, sep) - 1)

\* s.split(sep, 1)[1], for an s that holds sep
SplitRest(s, sep) == SubSeq(s, FindSub(s, sep) + Len(sep), Len(s))

\* str.isalpha() on ASCII text
isalpha(s) == s # "" /\ Keep(s, LETTERS) = s

\* " ".join(s.split())
join_split(s) == strip(MULTISPACE_RE_sub(s))

\* two decimal digits of n
TwoDigits(n) == CharAt(DIGITS, (n \div 10) + 1) \o CharAt(DIGITS, (n % 10) + 1)

\* "%b %d, %Y" of day dd of the month named mon in year Y
strftime_fields(mon, dd, Y) ==
    upper(CharAt(mon, 1)) \o SubSeq(mon, 2, 3) \o " " \o TwoDigits(dd)
    \o ", " \o TwoDigits(Y \div 100) \o TwoDigits(Y % 100)

strftime_month(Y, doy, m) ==
    strftime_fields(MonthNames[m], doy - DaysBefore(m), Y)

strftime_doy(Y, doy) ==
    strftime_month(Y, doy,
                   CHOOSE k \in 1..12 :
                      DaysBefore(k) < doy /\ doy <= DaysBefore(k) + MonthDays[k])

strftime_year(n, Y) == strftime_doy(Y, n - (Y - 2025) * 365)

\* d.strftime("%b %d, %Y") of the day number n
strftime(n) == strftime_year(n, 2025 + ((n - 1) \div 365))

\* s.replace(c, ""), c one character
RECURSIVE Drop(_, _)
Drop(s, c) ==
    IF s = "" THEN ""
    ELSE (IF CharAt(s, 1) = c THEN "" ELSE CharAt(s, 1))
         \o Drop(SubSeq(s, 2, Len(s)), c)

\* main.py 947-952: first_line
first_line(s) ==
    IF s = "" THEN ""
    ELSE strip(SplitHead(SplitHead(Drop(s, "\r"), "\n"), "Add to calendar"))

\* main.py 964-970, s the stripped text
weekday_dropped(s) ==
    IF Contains(s, ",") /\ isalpha(strip(SplitHead(s, ",")))
    THEN strip(SplitRest(s, ","))
    ELSE s

\* main.py 955-971
strip_weekday_prefix(date_text) ==
    IF date_text = "" THEN "" ELSE weekday_dropped(strip(date_text))

NoDateTime ==
    [matched |-> FALSE, month |-> "", day |-> "", year |-> "", time |-> ""]

\* :\d{2}\s*[APap][Mm]$ from position b of rest, the meridiem from c
time_tail(rest, b, c) ==
    /\ CharAt(rest, b) = ":"
    /\ Len(SubSeq(rest, b + 1, b + 2)) = 2
    /\ Keep(SubSeq(rest, b + 1, b + 2), DIGITS) = SubSeq(rest, b + 1, b + 2)
    /\ c + 1 = Len(rest)
    /\ IsIn(CharAt(rest, c), "APap")
    /\ IsIn(CharAt(rest, c + 1), "Mm")

\* \d{1,2} from position a to b, after at least one blank
time_digits(rest, a, b) ==
    /\ a > 1
    /\ (b - a) \in {1, 2}
    /\ time_tail(rest, b, SkipIn(rest, b + 3, WHITESPACE))

time_lead(rest, a) == time_digits(rest, a, SkipIn(rest, a, DIGITS))

\* \s+\d{1,2}:\d{2}\s*[APap][Mm]$ on rest
time_matches(rest) == time_lead(rest, SkipIn(rest, 1, WHITESPACE))

\* the groups, for the month ending before i, the day from j to k, the
\* year and what follows it
date_groups(s, i, j, k, year, rest) ==
    IF /\ i > 1
       /\ j > i
       /\ (k - j) \in {1, 2}
       /\ CharAt(s, k) = ","
       /\ Len(year) = 4
       /\ Keep(year, DIGITS) = year
       /\ (rest = "" \/ time_matches(rest))
    THEN [matched |-> TRUE, month |-> SubSeq(s, 1, i - 1),
          day |-> SubSeq(s, j, k - 1), year |-> year,
          time |-> IF rest = "" THEN ""
                   ELSE SubSeq(rest, SkipIn(rest, 1, WHITESPACE), Len(rest))]
    ELSE NoDateTime

date_year(s, i, j, k, l) ==
    date_groups(s, i, j, k, SubSeq(s, l, l + 3), SubSeq(s, l + 4, Len(s)))

date_comma(s, i, j, k) == date_year(s, i, j, k, SkipIn(s, k + 1, WHITESPACE))

date_day(s, i, j) == date_comma(s, i, j, SkipIn(s, j, DIGITS))

date_month(s, i) == date_day(s, i, SkipIn(s, i, WHITESPACE))

\* main.py 985-996: the pattern
\* ^[A-Za-z]+\s+\d{1,2},\s*\d{4}(?:\s+\d{1,2}:\d{2}\s*[APap][Mm])?$
\* on s; the groups, or matched = FALSE
DATE_TIME_RE_match(s) == date_month(s, SkipIn(s, 1, LETTERS))

\* main.py 996-1001: (date_part, time_part) of the match m
date_time_parts(m) ==
    IF ~ m.matched
    THEN [d |-> "", t |-> ""]
    ELSE [d |-> m.month \o " " \o m.day \o ", " \o m.year,
          t |-> strip(upper(m.time))]

\* main.py 989-995: the second try, without the weekday
second_match(m1, n) ==
    IF m1.matched THEN m1 ELSE DATE_TIME_RE_match(strip_weekday_prefix(n))

normalised_parts(n) == date_time_parts(second_match(DATE_TIME_RE_match(n), n))

\* main.py 973-1003: (date_part, time_part); the text is normalised to
\* single spaces before it is matched, so the replace of two spaces by one
\* in the time part finds nothing to replace
parse_date_time_from_text(s) ==
    IF s = "" THEN [d |-> "", t |-> ""] ELSE normalised_parts(join_split(s))

\* main.py 1032-1034; prev_val is prev.get(prev_key), "" when it is missing
keep_prev_if_blank(new_val, prev_val) ==
    IF strip(new_val) # "" THEN strip(new_val) ELSE strip(prev_val)

\* main.py 1025-1027: the range gives what it can
page_fallback(auction_date, auction_time, parts) ==
    [d |-> IF parts.d # "" THEN parts.d ELSE auction_date,
     t |-> IF parts.t # "" THEN parts.t ELSE auction_time]

\* main.py 1019-1027
page_parts(page, auction_date, auction_time) ==
    IF auction_date = "" /\ auction_time = "" /\ strip(page.range) # ""
    THEN page_fallback(auction_date, auction_time,
                       parse_date_time_from_text(
                           strip(SplitHead(strip(page.range), " - "))))
    ELSE [d |-> auction_date, t |-> auction_time]

\* main.py 1012-1028: the date and the time the page gives
\* (page texts: ob, emv, date, time, range)
page_date_time(page) ==
    page_parts(page, strip_weekday_prefix(first_line(strip(page.date))),
               strip(page.time))

\* a hard-close rule that never fires
hard_close_off(auct_str, day) == FALSE

\* main.py 1057-1058
is_yesterday(d, day) == d # NoneInt /\ d = day - 1

\* main.py 1054-1061: the Auction Start Date is yesterday's
hard_close(auct_str, day) ==
    auct_str # "" /\ is_yesterday(strptime(auct_str, TRUE), day)

\* main.py 1050
ob_present_and_real(ob_norm) == ob_norm # "" /\ ob_norm \notin {"tbd", ""}

\* main.py 1047-1061: Completed of the merged values on the day of the
\* scrape
completed_flag(ob, emv, auct, day) ==
    LET ob_norm       == lower(strip(ob))
        emv_has_value == strip(emv) # ""
        first         == IF emv_has_value /\ ob_present_and_real(ob_norm)
                         THEN "1" ELSE "0"
    IN  IF hard_close(strip(auct), day) THEN "1" ELSE first

\* a row whose cells are all blank; also prev of an insert (current_row is
\* None)
BlankRow ==
    [ob |-> "", emv |-> "", date |-> "", time |-> "", Completed |-> "",
     Added |-> ""]

\* main.py 1168-1172
row_dict_from_values(r) ==
    [ob |-> strip(r.ob), emv |-> strip(r.emv), date |-> strip(r.date),
     time |-> strip(r.time), Completed |-> strip(r.Completed),
     Added |-> strip(r.Added)]

\* main.py 1158-1166, txt the stripped text and first what stands before
\* its first comma
without_weekday(txt, first) ==
    IF Contains(txt, ",") /\ isalpha(first) /\ Len(first) > 3
    THEN strptime(strip(SplitRest(txt, ",")), TRUE)
    ELSE strptime(txt, TRUE)

stripped_auction_date(txt) == without_weekday(txt, strip(SplitHead(txt, ",")))

\* main.py 1154-1166, NoneInt for None
parse_auction_date_to_date(s) ==
    IF s = "" THEN NoneInt ELSE stripped_auction_date(strip(s))

\* an auction window of the day itself only
within_window_same_day(auct_d, day) == auct_d = day

\* main.py 1205: abs((auct_d - today).days) <= 1
within_window(auct_d, day) == auct_d - day \in {-1, 0, 1}

\* main.py 1200-1205
unparsed_or_near(auct_d, day) ==
    IF auct_d = NoneInt THEN TRUE ELSE within_window(auct_d, day)

\* main.py 1174-1205
is_candidate_row_full(r, day) ==
    IF strip(r.Completed) # "0" THEN FALSE
    ELSE IF strip(r.Added) # "" /\ strptime(strip(r.Added), TRUE) = day THEN FALSE
    ELSE IF strip(r.date) = "" THEN TRUE
    ELSE unparsed_or_near(parse_auction_date_to_date(strip(r.date)), day)

\* the day the model starts on
FirstDay == strptime("Nov 17, 2025", TRUE)

Page(o, e, d, t, r) == [ob |-> o, emv |-> e, date |-> d, time |-> t, range |-> r]

\* what the detail page of the link can show
Pages ==
    { Page("$100,000", "$250,000", "Monday, Nov 17, 2025\nAdd to calendar",
           "10:00 AM", ""),
      Page("TBD", "", "Nov 17, 2025", "", ""),
      Page("", "", "", "", ""),
      Page("tbd", "Not available", "Tue, Nov 18, 2025", "", ""),
      Page("", "", "", "", "Nov 16, 2025 7:00 am - Nov 18, 2025"),
      Page("$90,000", "", "Dec 25, 2025", "9:00 AM", "") }

Row(o, e, d, t, c, a) ==
    [ob |-> o, emv |-> e, date |-> d, time |-> t, Completed |-> c, Added |-> a]

\* rows the table can hold for the link before the model starts: none (the
\* link is new), rows written on earlier days, and rows as older versions
\* of the tracker or a hand left them
PriorRows ==
    { NoRow,
      Row("TBD", "", "Nov 18, 2025", "", "0", "Nov 16, 2025"),
      Row("", "", "Mon, Nov 17, 2025", "", "0", "2025-11-10 10:00:00"),
      Row("$5,000", "", " ", "", "0 ", ""),
      Row("$5,000", "$9,000", "Nov 18, 2025", "", "1", "Nov 16, 2025"),
      Row("", "", "Nov 20, 2025", "", "0", "Nov 10, 2025"),
      Row("TBD", "", "Nov 18, 2025", "", "0", "Nov 17, 2025"),
      Row("", "", "Nov 17, 2025", "", "0", "Nov 16, 2025") }

ScrapeOutcomes == {"data", "captcha", "empty", "write_failed"}

Visit(op, t, d, b, a) ==
    [op |-> op, today |-> t, day |-> d, before |-> b, after |-> a]

\* what the pages give as date and time, page by page
page_dt == [page \in Pages |-> page_date_time(page)]

\* main.py 1036-1063: merged, from the merged bids, date and time
merged_row(ob, emv, auct, time, day) ==
    [ob |-> ob, emv |-> emv, date |-> auct, time |-> time,
     Completed |-> completed_flag(ob, emv, auct, day),
     Added |-> strftime(day)]

\* main.py 1030-1045: each field of the page, or of prev where the page
\* leaves it blank
merge_page(page, dt, prev, day) ==
    merged_row(keep_prev_if_blank(strip(page.ob), prev.ob),
               keep_prev_if_blank(strip(page.emv), prev.emv),
               keep_prev_if_blank(dt.d, prev.date),
               keep_prev_if_blank(dt.t, prev.time), day)

\* main.py 1030-1063: merged, for the page, the row read before (prev) and
\* the day of the scrape
scrape_row(page, prev, day) == merge_page(page, page_dt[page], prev, day)

RowInit ==
    /\ PoolIdle
    /\ RetryIdle
    /\ SheetIdle
    /\ MailIdle
    /\ ZoneIdle
    /\ RaceIdle
    /\ today = FirstDay
    /\ sheet_row \in PriorRows
    /\ rlog = <<>>

\* main.py 1141-1149: the row is inserted when the scrape gave data and the
\* write went through
Inserted(outcome, merged) ==
    IF outcome = "data"
    THEN /\ sheet_row' = merged
         /\ rlog' = Append(rlog, Visit("insert", today, today, NoRow, merged))
    ELSE /\ sheet_row' = sheet_row
         /\ rlog' = Append(rlog, Visit("insert_failed", today, today, NoRow,
                                       NoRow))

\* main.py 1095-1149: the insert pass on the link, new to the table; the
\* page shows page, the scrape and the write end as outcome
RowInsert ==
    /\ sheet_row = NoRow
    /\ Len(rlog) < MaxVisits
    /\ \E page \in Pages, outcome \in ScrapeOutcomes :
          Inserted(outcome, scrape_row(page, BlankRow, today))
    /\ UNCHANGED today
    /\ UNCHANGED <<poolVars, retryVars, sheetVars, mailVars, zoneVars, raceVars>>

\* main.py 1228, 1262-1270: the update pass reads the row of the link and
\* the filter turns it down
RowSkip ==
    /\ sheet_row # NoRow
    /\ Len(rlog) < MaxVisits
    /\ ~ is_candidate_row_full(row_dict_from_values(sheet_row), today)
    /\ rlog' = Append(rlog, Visit("skip", today, today, sheet_row, sheet_row))
    /\ UNCHANGED <<today, sheet_row>>
    /\ UNCHANGED <<poolVars, retryVars, sheetVars, mailVars, zoneVars, raceVars>>

\* main.py 1285-1335: what the scrape of day leaves in the table
Updated(outcome, day, updated) ==
    /\ today' = day
    /\ \/ /\ outcome = "data"
          /\ sheet_row' = updated
          /\ rlog' = Append(rlog, Visit("update", today, day, sheet_row,
                                        updated))
       \/ /\ outcome = "captcha"
          /\ sheet_row' = BlankRow
          /\ rlog' = Append(rlog, Visit("blanked", today, day, sheet_row,
                                        BlankRow))
       \/ /\ outcome = "write_failed"
          /\ sheet_row' = sheet_row
          /\ rlog' = Append(rlog, Visit("write_failed", today, day, sheet_row,
                                        updated))
       \/ /\ outcome = "empty"
          /\ sheet_row' = sheet_row
          /\ rlog' = Append(rlog, Visit("failed", today, day, sheet_row,
                                        sheet_row))

ScrapedOn(page, outcome, day) ==
    Updated(outcome, day,
            scrape_row(page, row_dict_from_values(sheet_row), day))

\* main.py 1228, 1262-1335: the update pass on a row the filter lets
\* through; today is read when the pass starts, the scrape reads the clock
\* again (late: midnight has passed in between)
RowUpdate ==
    /\ sheet_row # NoRow
    /\ Len(rlog) < MaxVisits
    /\ is_candidate_row_full(row_dict_from_values(sheet_row), today)
    /\ \E page \in Pages, outcome \in ScrapeOutcomes, late \in BOOLEAN :
          /\ late => today < FirstDay + MaxDays
          /\ ScrapedOn(page, outcome, IF late THEN today + 1 ELSE today)
    /\ UNCHANGED <<poolVars, retryVars, sheetVars, mailVars, zoneVars, raceVars>>

\* a night between two runs of the tracker
NextDay ==
    /\ today < FirstDay + MaxDays
    /\ today' = today + 1
    /\ UNCHANGED <<sheet_row, rlog>>
    /\ UNCHANGED <<poolVars, retryVars, sheetVars, mailVars, zoneVars, raceVars>>

RowNext ==
    \/ RowInsert
    \/ RowSkip
    \/ RowUpdate
    \/ NextDay

RowSpec == RowInit /\ [][RowNext]_vars

(***************************************************************************)
(* C25: the candidate filter of the update pass.                           *)
(***************************************************************************)
\* the rule of the claim, for the cells of a row on the day the pass reads
\* as today
CandidateRule(r, day) ==
    /\ strip(r.Completed) = "0"
    /\ strptime(strip(r.Added), TRUE) # day
    /\ \/ strip(r.date) = ""
       \/ parse_auction_date_to_date(strip(r.date)) = NoneInt
       \/ parse_auction_date_to_date(strip(r.date)) \in {day - 1, day, day + 1}

\* the visits of the update pass
UpdateVisits ==
    {k \in DOMAIN rlog : rlog[k].op \notin {"insert", "insert_failed"}}

Writes == {k \in DOMAIN rlog : rlog[k].op \in {"insert", "update"}}

BidsKnown(r) ==
    /\ strip(r.emv) # ""
    /\ strip(r.ob) # ""
    /\ lower(strip(r.ob)) # "tbd"

\* C26: the Completed flag written for a scraped row is true if and only if
\* (Est. Market Value is non-blank and Opening Bid is non-blank and not
\* 'tbd') or the Auction Start Date parses to exactly the day before the
\* day of the scrape.
C26_CompletedRule ==
    \A k \in Writes :
        (rlog[k].after.Completed = "1")
            <=> \/ BidsKnown(rlog[k].after)
                \/ /\ strptime(strip(rlog[k].after.date), TRUE) # NoneInt
                   /\ strptime(strip(rlog[k].after.date), TRUE) = rlog[k].day - 1

\* a row with both bid fields blank is written with Completed false on the
\* day of its auction and with Completed true the day after
C26_Witness ==
    /\ Len(rlog) = 2
    /\ \A k \in {1, 2} :
          /\ rlog[k].op = "update"
          /\ rlog[k].after.ob = ""
          /\ rlog[k].after.emv = ""
          /\ rlog[k].after.date = "Nov 17, 2025"
    /\ rlog[1].day = strptime("Nov 17, 2025", TRUE)
    /\ rlog[1].after.Completed = "0"
    /\ rlog[2].day = strptime("Nov 18, 2025", TRUE)
    /\ rlog[2].after.Completed = "1"

(***************************************************************************)
(* C29: Added Date under the update pass.                                  *)
(***************************************************************************)
\* C29: an in-place update of an existing row by the update pass leaves the
\* row's Added Date equal to the value it had before (the stamp of the
\* insertion).
C29_AddedDateKept ==
    \A k \in DOMAIN rlog :
        rlog[k].op = "update" => rlog[k].after.Added = rlog[k].before.Added

(***************************************************************************)
(* The collector (sheet_automation.py: parse_subject,                      *)
(* extract_final_bid_from_body_text, iter_unread_pages, collect_to_csv).   *)
(* The subjects of the model are single lines.                             *)
(***************************************************************************)
\* unread messages the query can list
MaxMail == 2

\* messages of one list page; the program's LIST_PAGE_SIZE is 200, the
\* model's inbox is short, so the page is scaled down with it
LIST_PAGE_SIZE == 1

\* characters matched by \w
WORDCHARS == LETTERS \o DIGITS \o "_"

\* the words, lower case, one after the other with \s+ in between, matched
\* in the lower-cased text ls from position i on: the position behind the
\* last word, 0 when they do not match
RECURSIVE MatchWords(_, _, _)
MatchWords(ls, i, words) ==
    LET w == Head(words)
        e == i + Len(w)
        j == SkipIn(ls, e, WHITESPACE)
    IN  IF i < 1 \/ e - 1 > Len(ls) THEN 0
        ELSE IF SubSeq(ls, i, e - 1) # w THEN 0
        ELSE IF Len(words) = 1 THEN e
        ELSE IF j = e THEN 0
        ELSE MatchWords(ls, j, Tail(words))

NoMatch == [matched |-> FALSE, g |-> ""]

\* group 1 from position q up to the first of the places H
group_up_to(s, q, H) ==
    IF H = {} THEN NoMatch
    ELSE [matched |-> TRUE, g |-> rstrip(SubSeq(s, q, MinOf(H) - 1))]

removed_from(s, ls, q) ==
    group_up_to(s, q, {h \in q..Len(s) :
                          MatchWords(ls, h, <<"has", "been", "removed">>) # 0})

removed_head(s, ls, e) ==
    IF e = 0 THEN NoMatch ELSE removed_from(s, ls, SkipIn(ls, e, WHITESPACE))

removed_lower(s, ls) ==
    removed_head(s, ls, MatchWords(ls, SkipIn(ls, 1, WHITESPACE),
                                   <<"property", "removed:">>))

\* sheet_automation.py 101-103: SUBJ_REMOVED_RE.match(s), group 1
SUBJ_REMOVED_RE_match(s) == removed_lower(s, lower(s))

\* the words end at r, at a word boundary
words_end(s, r) == r # 0 /\ (r > Len(s) \/ ~ IsIn(CharAt(s, r), WORDCHARS))

update_from(s, ls, q, words) ==
    group_up_to(s, q, {d \in q..Len(s) :
                          /\ CharAt(s, d) = "-"
                          /\ words_end(s, MatchWords(ls, SkipIn(ls, d + 1, WHITESPACE),
                                                     words))})

update_head(s, ls, e, words) ==
    IF e = 0 THEN NoMatch
    ELSE update_from(s, ls, SkipIn(ls, e, WHITESPACE), words)

\* ^\s*Transaction\s+Update: on the lower-cased text
update_prefix(ls) ==
    MatchWords(ls, SkipIn(ls, 1, WHITESPACE), <<"transaction", "update:">>)

update_lower(s, ls, words) == update_head(s, ls, update_prefix(ls), words)

\* sheet_automation.py 106-113: the pattern
\* ^\s*Transaction\s+Update:\s*(.*?)\s*-\s*<words>\b.*$ on s, group 1
SUBJ_UPDATE_RE_match(s, words) == update_lower(s, lower(s), words)

SUBJ_UPDATE_SOLD_3RD_RE_match(s) ==
    SUBJ_UPDATE_RE_match(s, <<"sold", "to", "3rd", "party">>)

SUBJ_UPDATE_SOLD_BENEF_RE_match(s) ==
    SUBJ_UPDATE_RE_match(s, <<"sold", "to", "beneficiary">>)

any_head(s, ls, e) ==
    IF e = 0 THEN NoMatch
    ELSE [matched |-> TRUE,
          g |-> rstrip(SplitHead(SubSeq(s, SkipIn(ls, e, WHITESPACE), Len(s)),
                                 "-"))]

any_lower(s, ls) == any_head(s, ls, update_prefix(ls))

\* sheet_automation.py 116-118: SUBJ_UPDATE_ANY_RE.match(s), group 1: the
\* text up to the first dash, or all of it
SUBJ_UPDATE_ANY_RE_match(s) == any_lower(s, lower(s))

\* parse_subject returned None
NoParse == [type |-> "", address |-> "", state |-> ""]

\* sheet_automation.py 150-152, address the normalised group
parsed_address(type, address) ==
    [type |-> type, address |-> address, state |-> extract_state(address)]

Parsed(type, g) == parsed_address(type, join_split(g))

\* the pattern that matched first gives the type and the group
NoHit == [type |-> "", g |-> ""]

Hit(type, m) == [type |-> type, g |-> m.g]

\* sheet_automation.py 166-170
try_any(m) == IF m.matched THEN Hit("Removed", m) ELSE NoHit

\* sheet_automation.py 160-164
try_benef(s, m) ==
    IF m.matched THEN Hit("Removed", m)
    ELSE try_any(SUBJ_UPDATE_ANY_RE_match(s))

\* sheet_automation.py 154-158
try_sold(s, m) ==
    IF m.matched THEN Hit("Sold To 3rd Party", m)
    ELSE try_benef(s, SUBJ_UPDATE_SOLD_BENEF_RE_match(s))

\* sheet_automation.py 148-152
try_removed(s, m) ==
    IF m.matched THEN Hit("Removed", m)
    ELSE try_sold(s, SUBJ_UPDATE_SOLD_3RD_RE_match(s))

parse_hit(h) == IF h = NoHit THEN NoParse ELSE Parsed(h.type, h.g)

\* sheet_automation.py 141-172
parse_subject(subject) ==
    parse_hit(try_removed(strip(subject), SUBJ_REMOVED_RE_match(strip(subject))))

\* the end of the run of ,ddd groups that starts at i
RECURSIVE CommaGroups(_, _)
CommaGroups(s, i) ==
    IF /\ i + 3 <= Len(s)
       /\ CharAt(s, i) = ","
       /\ Keep(SubSeq(s, i + 1, i + 3), DIGITS) = SubSeq(s, i + 1, i + 3)
    THEN CommaGroups(s, i + 4)
    ELSE i

\* (?:\.\d{2})? from position c
amount_end(lt, c) ==
    IF /\ c + 2 <= Len(lt)
       /\ CharAt(lt, c) = "."
       /\ Keep(SubSeq(lt, c + 1, c + 2), DIGITS) = SubSeq(lt, c + 1, c + 2)
    THEN c + 3 ELSE c

\* \d{1,3}(?:,\d{3})*(?:\.\d{2})? from position p5, the first digits up to n
amount_group(text, lt, p5, n) ==
    IF n = p5 THEN ""
    ELSE SubSeq(text, p5, amount_end(lt, CommaGroups(lt, n)) - 1)

amount_digits(text, lt, p5) ==
    amount_group(text, lt, p5, Min(SkipIn(lt, p5, DIGITS), p5 + 3))

\* \$?\s* from position p3
amount_dollar(text, lt, p3) ==
    amount_digits(text, lt,
                  SkipIn(lt, IF p3 <= Len(lt) /\ CharAt(lt, p3) = "$"
                             THEN p3 + 1 ELSE p3, WHITESPACE))

\* (?:USD|US\$)?\s* from position p1
amount_currency(text, lt, p1) ==
    amount_dollar(text, lt,
                  SkipIn(lt, IF /\ p1 + 2 <= Len(lt)
                                /\ SubSeq(lt, p1, p1 + 2) \in {"usd", "us$"}
                             THEN p1 + 3 ELSE p1, WHITESPACE))

amount_anchor(text, lt, e) ==
    IF e = 0 THEN "" ELSE amount_currency(text, lt, SkipIn(lt, e, WHITESPACE))

amount_lower(text, lt, a) ==
    amount_anchor(text, lt,
                  MatchWords(lt, a, <<"was", "sold", "at", "auction", "today",
                                      "for">>))

\* sheet_automation.py 131-135: AMOUNT_ANCHOR_RE matched from position a of
\* text: group 1, "" when it does not match there
AMOUNT_ANCHOR_RE_at(text, a) == amount_lower(text, lower(text), a)

\* sheet_automation.py 177-181: the first match, A the places that match
first_amount(text, A) ==
    IF A = {} THEN "" ELSE "$" \o AMOUNT_ANCHOR_RE_at(text, MinOf(A))

\* sheet_automation.py 174-181
extract_final_bid_from_body_text(text) ==
    IF text = "" THEN ""
    ELSE first_amount(text, {a \in 1..Len(text) :
                                AMOUNT_ANCHOR_RE_at(text, a) # ""})

\* str.startswith
startswith(s, prefix) ==
    Len(s) >= Len(prefix) /\ SubSeq(s, 1, Len(prefix)) = prefix

\* sheet_automation.py 451-452: the subject carries one of the two prefixes
has_prefix(subject) ==
    \/ startswith(lower(subject), "transaction update:")
    \/ startswith(lower(subject), "property removed:")

Msg(subject, text) == [subject |-> subject, body |-> text]

SoldBody == "The property was sold at auction today for $123,456.00."

\* messages the query can list: the four recognised kinds of subject, a
\* subject with the prefix that parse_subject turns down, subjects without
\* the prefix, and a sale whose body names no amount
Messages ==
    { Msg("Property Removed: 12 Oak St, Miami, FL 33101 has been removed from auction",
          SoldBody),
      Msg("Transaction Update: 9 Elm St, Austin, TX 78701 - Sold To 3rd Party",
          SoldBody),
      Msg("Transaction Update: 9 Elm St, Austin, TX 78701 - Sold To 3rd Party",
          "The sale is pending."),
      Msg("Transaction Update: 5 Pine Rd, Reno, NV 89501 - Sold to Beneficiary",
          SoldBody),
      Msg("Transaction Update: 7 Lake Dr, Tampa, FL 33602 - Postponed", SoldBody),
      Msg("Property Removed: 3 Hill Ct, Boise, ID 83702 is gone", SoldBody),
      Msg("Your weekly digest", SoldBody),
      Msg("TRANSACTION  UPDATE: 4 Fir St, Ocala, FL - sold to 3rd party", SoldBody) }

\* parse_subject and the prefix test, message by message
parsed_subject == [m \in Messages |-> parse_subject(strip(m.subject))]

prefixed == [m \in Messages |-> has_prefix(strip(m.subject))]

\* the final bid of a sale, message by message
body_bid == [m \in Messages |-> extract_final_bid_from_body_text(m.body)]

\* the inboxes the collector can find
RECURSIVE InboxesUpTo(_)
InboxesUpTo(n) ==
    IF n = 0 THEN {<<>>}
    ELSE LET shorter == InboxesUpTo(n - 1)
         IN  shorter \cup {Append(q, m) : q \in {x \in shorter : Len(x) = n - 1},
                                          m \in Messages}

Inboxes == InboxesUpTo(MaxMail)

MailInit ==
    /\ PoolIdle
    /\ RetryIdle
    /\ SheetIdle
    /\ RowIdle
    /\ ZoneIdle
    /\ RaceIdle
    /\ mail \in Inboxes
    /\ mi = 0
    /\ unread = DOMAIN mail
    /\ written = <<>>
    /\ mlog = <<>>
    /\ mpc = "list"
    /\ csv_final \in {NoCsv, [exists |-> TRUE, rows |-> <<>>]}

\* sheet_automation.py 249-274: one list call of iter_unread_pages; a failed
\* call and a page without a next page token end the pagination
MailList(ok) ==
    /\ mpc = "list"
    /\ mpc' = IF ok /\ mi < Len(mail) THEN "msgs" ELSE "commit"
    /\ UNCHANGED <<mail, mi, unread, written, mlog, csv_final>>
    /\ UNCHANGED <<poolVars, retryVars, sheetVars, rowVars, zoneVars, raceVars>>

\* sheet_automation.py 464-470: the final bid is the amount of the body
\* for a sale and empty for the rest
final_bid_of(type, amount) ==
    IF type = "Sold To 3rd Party" THEN amount ELSE ""

\* a skip that leaves the message unread
skip_marks_none(msg_id) == {}

\* sheet_automation.py 453 / 459: mark_read(gmail, msg_id) on a skip
skip_marks(msg_id) == {msg_id}

\* mark_read (315-320): the calls of marks are issued; the label goes when
\* the modify call went through
Unmark(labels, marks, markOk) == IF markOk THEN labels \ marks ELSE labels

\* where the loop goes after message i
AfterMessage(i) ==
    IF i = Len(mail) THEN "commit"
    ELSE IF i % LIST_PAGE_SIZE = 0 THEN "list"
    ELSE "msgs"

Handled(i, meta, marks, row, fetched) ==
    [id |-> i, meta |-> meta, marks |-> marks, rows |-> row, body |-> fetched]

\* sheet_automation.py 472-478: the change record
MessageRow(psd, bid) ==
    [address |-> psd.address, zone |-> zone_for_state(psd.state),
     type |-> psd.type, final_bid |-> final_bid_of(psd.type, bid)]

\* sheet_automation.py 465-467: the amount of the body that was fetched
bid_of_text(m, text) == IF text = "" THEN "" ELSE body_bid[m]

\* sheet_automation.py 444-487: message i, m, with its parsed subject psd
MessageHandled(i, m, psd, sale, row, metaOk, markOk, raised) ==
    /\ mi' = i
    /\ mpc' = AfterMessage(i)
    /\ IF ~ metaOk
       THEN /\ mlog' = Append(mlog, Handled(i, FALSE, {}, <<>>, FALSE))
            /\ UNCHANGED <<unread, written>>
       ELSE IF ~ prefixed[m] \/ psd = NoParse
       THEN /\ mlog' = Append(mlog, Handled(i, TRUE, skip_marks(i), <<>>,
                                            FALSE))
            /\ unread' = Unmark(unread, skip_marks(i), markOk)
            /\ UNCHANGED written
       ELSE IF raised
       THEN /\ mlog' = Append(mlog, Handled(i, TRUE, {}, <<>>, sale))
            /\ UNCHANGED <<unread, written>>
       ELSE /\ mlog' = Append(mlog, Handled(i, TRUE, {i}, <<row>>, sale))
            /\ written' = Append(written, row)
            /\ unread' = Unmark(unread, {i}, markOk)

MessageFetched(i, m, psd, sale, metaOk, bodyOk, markOk, raised) ==
    MessageHandled(i, m, psd, sale,
                   MessageRow(psd, bid_of_text(m, IF sale /\ bodyOk
                                                  THEN m.body ELSE "")),
                   metaOk, markOk, raised)

MessageParsed(i, m, psd, metaOk, bodyOk, markOk, raised) ==
    MessageFetched(i, m, psd, psd.type = "Sold To 3rd Party", metaOk, bodyOk,
                   markOk, raised)

MessageAt(i, m, metaOk, bodyOk, markOk, raised) ==
    MessageParsed(i, m, parsed_subject[m], metaOk, bodyOk, markOk, raised)

\* sheet_automation.py 442-487: one message of the page.  metaOk: the
\* metadata came; bodyOk: the body came; markOk: the modify call went
\* through; raised: the write of the row raised
MailMessage(metaOk, bodyOk, markOk, raised) ==
    /\ mpc = "msgs"
    /\ MessageAt(mi + 1, mail[mi + 1], metaOk, bodyOk, markOk, raised)
    /\ UNCHANGED <<mail, csv_final>>
    /\ UNCHANGED <<poolVars, retryVars, sheetVars, rowVars, zoneVars, raceVars>>

\* sheet_automation.py 489-498, 377-381: atomic_csv_commit replaces
\* CSV_FINAL by the temporary file; when it raises, the run ends with
\* CSV_FINAL as it was
MailCommit(ok) ==
    /\ mpc = "commit"
    /\ mpc' = "done"
    /\ csv_final' = IF ok THEN [exists |-> TRUE, rows |-> written] ELSE csv_final
    /\ UNCHANGED <<mail, mi, unread, written, mlog>>
    /\ UNCHANGED <<poolVars, retryVars, sheetVars, rowVars, zoneVars, raceVars>>

MailNext ==
    \/ \E ok \in BOOLEAN : MailList(ok)
    \/ \E metaOk \in BOOLEAN, bodyOk \in BOOLEAN, markOk \in BOOLEAN,
          raised \in BOOLEAN : MailMessage(metaOk, bodyOk, markOk, raised)
    \/ \E ok \in BOOLEAN : MailCommit(ok)

MailSpec == MailInit /\ [][MailNext]_vars

(***************************************************************************)
(* C30: unrecognised subjects and the final bid.                           *)
(***************************************************************************)
\* the subject of the message is a recognised Property Removed /
\* Transaction Update subject
Recognised(m) == prefixed[m] /\ parsed_subject[m] # NoParse

\* C30: every message whose metadata was fetched and whose subject is not a
\* recognised Property Removed / Transaction Update subject is marked read
\* (mark_read is called for it) and produces no change record; the body is
\* read for a final bid only for Sold To 3rd Party messages, and every
\* Removed change record has an empty final bid.
C30_UnrecognisedMarkedAndBidOnlyForSales ==
    /\ \A k \in DOMAIN mlog :
          LET h == mlog[k]
          IN  /\ (h.meta /\ ~ Recognised(mail[h.id])) =>
                    (h.marks = {h.id} /\ h.rows = <<>>)
              /\ h.body =>
                    parsed_subject[mail[h.id]].type = "Sold To 3rd Party"
              /\ \A j \in DOMAIN h.rows :
                    h.rows[j].type = "Removed" => h.rows[j].final_bid = ""
    /\ \A j \in DOMAIN written :
          written[j].type = "Removed" => written[j].final_bid = ""
    /\ \A j \in DOMAIN csv_final.rows :
          csv_final.rows[j].type = "Removed" => csv_final.rows[j].final_bid = ""

\* a message with the prefix that parse_subject turns down was marked read
\* without a record, and a Removed message whose body names an amount gave
\* a record without a final bid
C30_Witness ==
    /\ Len(mlog) = 2
    /\ mail[1].subject = "Property Removed: 3 Hill Ct, Boise, ID 83702 is gone"
    /\ mlog[1].meta
    /\ 1 \notin unread
    /\ mlog[1].rows = <<>>
    /\ mail[2].subject = "Transaction Update: 7 Lake Dr, Tampa, FL 33602 - Postponed"
    /\ mail[2].body = SoldBody
    /\ written = <<[address |-> "7 Lake Dr, Tampa, FL 33602", zone |-> "EAST",
                    type |-> "Removed", final_bid |-> ""]>>

(***************************************************************************)
(* C33: the counters of a pass.                                            *)
(***************************************************************************)
\* increments of the counter named e in the current unit of work
Count(e) == Len(EventsOf(ulog, e))

\* C33: the aggregate counters are consistent when a pass returns: in the
\* insert pass attempted = inserted + failed (each attempted link is counted
\* exactly once as inserted or failed), and in the update pass candidates =
\* updated + failed.  The counters start at zero and only grow by the
\* increments of the units of work, so the sums agree when every unit of
\* work adds as much to the left side as to the right side; a candidate row
\* is one unit of the update pass.
C33_CountersConsistent ==
    UnitOver =>
        IF pass = "insert"
        THEN Count("attempted") = Count("inserted") + Count("failed")
        ELSE 1 = Count("updated") + Count("failed")

(***************************************************************************)
(* C34: what is written to the table.                                      *)
(***************************************************************************)
\* C34: the update pass and the insert pass write a row to the table only
\* when the scraper returned a full field mapping for that unit of work: a
\* captcha signal or an empty result, on the first scrape or on the retry,
\* never leads to a row update or a row insert.
C34_WritesOnlyScrapedData ==
    \A i \in 1..Len(ulog) : ulog[i].ev = "write" => ulog[i].out = "data"

(***************************************************************************)
(* C36: the pool and the cooldown list.                                    *)
(***************************************************************************)
\* C36: at every point of the insert pass and the update pass, no resource
\* is both in the active pool and in the cooldown list, a driver is never
\* selected from an empty pool (the pass never reaches pick_driver with an
\* empty list), the driver selected last is a member of the active pool
\* until it is evicted, and each cooldown entry has a remaining count
\* between 1 and 20 (the list changes by a tick or by cooldown_add only, so
\* this is the state after every tick).
C36_PoolAndCooldownDisjoint ==
    /\ Range(pool) \cap CooldownProfiles = {}
    /\ pc # "crash"
    /\ pc \in {"got", "got2"} => cur \in Range(pool)
    /\ \A k \in 1..Len(cooldown) :
          cooldown[k].remaining \in 1..ENTRIES_UNTIL_RETRY

\* a driver was selected while a retired profile, re-opened in vain, waits
\* with a count reset by the tick
C36_Witness ==
    /\ pc = "got"
    /\ cur \in Range(pool)
    /\ tried # {}
    /\ \E k \in 1..Len(cooldown) :
          cooldown[k].profile \in tried /\ cooldown[k].remaining < REOPEN_FAILED_WINDOW

(***************************************************************************)
(* C35: what an in-place update keeps.                                     *)
(***************************************************************************)
\* the cells of the row the model follows that the merge takes from the
\* page or from the row read before
KeptNonBlank(before, after) ==
    /\ strip(before.ob) # "" => strip(after.ob) # ""
    /\ strip(before.emv) # "" => strip(after.emv) # ""
    /\ strip(before.date) # "" => strip(after.date) # ""
    /\ strip(before.time) # "" => strip(after.time) # ""

\* C35: an in-place update by the update pass never replaces a non-blank
\* Opening Bid, Est. Market Value, Auction Start Date or Auction Start Time
\* of the existing row by a blank value (of the columns of the claim these
\* are the ones the model keeps).
C35_UpdateKeepsNonBlank ==
    \A k \in DOMAIN rlog :
        rlog[k].op \in {"update", "blanked"} =>
            KeptNonBlank(rlog[k].before, rlog[k].after)

(***************************************************************************)
(* C38: marked messages and the committed file.                            *)
(***************************************************************************)
\* C38: no change event is lost by the collector: when the run has ended, a
\* message whose change record was written to the temporary file has lost
\* its UNREAD label only if the record is in CSV_FINAL; a run that ended
\* without the atomic commit has marked no such message read.
C38_MarkedOnlyIfCommitted ==
    mpc = "done" =>
        \A k \in DOMAIN mlog :
            \A j \in DOMAIN mlog[k].rows :
                mlog[k].id \notin unread =>
                    \E i \in DOMAIN csv_final.rows :
                        csv_final.rows[i] = mlog[k].rows[j]

(***************************************************************************)
(* C40: what the deletes of a pass remove.                                 *)
(***************************************************************************)
\* row numbers whose delete failed and was skipped
FailedDeletes == {a.at : a \in {d \in Deletes : ~ d.ok}}

\* the delete loop of the zone has run out
DeletesOver == job = "upload" /\ spc \in {"c_delete", "delete"} /\ dels = <<>>

\* the scan of the pass read the zone's table as the job found it: the
\* cleanup of the first run, and the upload pass of the first run on a
\* table the cleanup had nothing to remove from
ScannedAsGiven ==
    /\ cut = ""
    /\ spc = "delete" => Doomed(input.sheets[zones[zi]]) = {}

\* C40: because the deletes are applied in descending order after the whole
\* scan, each successful delete removes exactly the row that held that row
\* number at scan time, also when some deletes of the pass fail and are
\* skipped: when the delete loop is over, the table is the table of scan
\* time without the staged rows whose delete went through (the rows below
\* a removed row moved up), so the rows removed are the staged rows minus
\* the failed deletes and no unstaged row is removed.
C40_DeletesRemoveStagedRows ==
    (DeletesOver /\ ScannedAsGiven) =>
        /\ {a.at : a \in Deletes} = to_delete
        /\ ZoneTable = Without(input.sheets[zones[zi]], to_delete \ FailedDeletes)

\* a delete failed and a delete of a row above it (in the table: a lower
\* row number) went through afterwards
C40_Witness ==
    /\ DeletesOver
    /\ ScannedAsGiven
    /\ \E a \in Deletes, b \in Deletes : ~ a.ok /\ b.ok /\ b.at < a.at
    /\ ZoneTable # input.sheets[zones[zi]]

(***************************************************************************)
(* The zone run (main.py 1470-1736: get_links_and_status from the load of  *)
(* the detail pool on, and 1827-1850: the try / finally of main around     *)
(* it).  The insert passes and the update pass of the run are the passes   *)
(* modelled above, on the one detail pool of the run.                      *)
(***************************************************************************)
\* states of the zone (ACCOUNTS[name]["states"])
NStates == 2

\* new links the scan of a state gives, and candidate rows of the zone
MaxLinks == 2

Step(step, st, how) == [step |-> step, state |-> st, how |-> how]

\* what can be raised while the zone run is under way
Raised == {"exception", "interrupt"}

\* main.py 306-312: shutdown_detail_drivers quits the sessions in the list
shutdown_detail_drivers(open, detail_drivers) == open \ Range(detail_drivers)

\* a zone run that catches nothing raised in an insert pass
Caught_update_only(kind, where) == kind = "exception" /\ where = "update"

\* main.py 1719-1720, 1731-1733: except Exception around the call of the
\* insert pass and around the call of the update pass; the state loop
\* itself is in no try, and KeyboardInterrupt is not an Exception
Caught(kind, where) == kind = "exception" /\ where \in {"insert", "update"}

\* main.py 1470: detail_pool = load_all_detail_drivers(), the profile's main
\* session (drv) is open
ZoneInit ==
    /\ RetryIdle
    /\ SheetIdle
    /\ RowIdle
    /\ MailIdle
    /\ RaceIdle
    /\ pass = "-"
    /\ pc = "idle"
    /\ nunits = 0
    /\ idx = 0
    /\ pool \in InitialPools
    /\ live = Range(pool)
    /\ cooldown = <<>>
    /\ r_i = 0
    /\ cur = "-"
    /\ vals = "none"
    /\ ulog = <<>>
    /\ signalled = {}
    /\ age = [p \in Profiles |-> 0]
    /\ tried = {}
    /\ attempts = {}
    /\ waiting = [p \in Profiles |-> {}]
    /\ rrMissed = {}
    /\ zpc = "states"
    /\ zstate = 0
    /\ main_live = TRUE
    /\ zrun = <<>>

\* main.py 1477-1718: the next state of the loop: search and scan; without
\* a list or a total the state is left (continue), else the insert pass is
\* called with the n links the scan saved
ZoneState(found, n) ==
    /\ zpc = "states" /\ zstate < NStates
    /\ zstate' = zstate + 1
    /\ IF found
       THEN /\ zpc' = "insert"
            /\ pass' = "insert"
            /\ pc' = "start"
            /\ nunits' = n
            /\ idx' = 0
            /\ UNCHANGED zrun
       ELSE /\ zrun' = Append(zrun, Step("skip", zstate + 1, "no_list"))
            /\ UNCHANGED <<zpc, pass, pc, nunits, idx>>
    /\ UNCHANGED <<pool, live, cooldown, r_i, cur, vals, ulog, signalled, age,
                   tried, attempts, waiting, rrMissed, main_live>>
    /\ UNCHANGED <<retryVars, sheetVars, rowVars, mailVars, raceVars>>

\* main.py 1717-1721: the insert pass returned its stats
ZoneInsertReturned ==
    /\ zpc = "insert" /\ pc = "done"
    /\ zpc' = "states"
    /\ pc' = "idle"
    /\ zrun' = Append(zrun, Step("insert", zstate, "returned"))
    /\ UNCHANGED <<pass, nunits, idx, pool, live, cooldown, r_i, cur, vals,
                   ulog, signalled, age, tried, attempts, waiting, rrMissed,
                   zstate, main_live>>
    /\ UNCHANGED <<retryVars, sheetVars, rowVars, mailVars, raceVars>>

\* main.py 1723-1729: after the last state the update pass is called on
\* the zone, with n candidate rows to go through
ZoneUpdate(n) ==
    /\ zpc = "states" /\ zstate = NStates
    /\ zpc' = "update"
    /\ pass' = "update"
    /\ pc' = "start"
    /\ nunits' = n
    /\ idx' = 0
    /\ zrun' = Append(zrun, Step("update", 0, "called"))
    /\ UNCHANGED <<pool, live, cooldown, r_i, cur, vals, ulog, signalled, age,
                   tried, attempts, waiting, rrMissed, zstate, main_live>>
    /\ UNCHANGED <<retryVars, sheetVars, rowVars, mailVars, raceVars>>

\* main.py 1730, 1734-1735: the update pass returned; finally:
\* shutdown_detail_drivers(detail_pool)
ZoneUpdateReturned ==
    /\ zpc = "update" /\ pc = "done"
    /\ zpc' = "returned"
    /\ pc' = "idle"
    /\ live' = shutdown_detail_drivers(live, pool)
    /\ zrun' = Append(zrun, Step("update", 0, "returned"))
    /\ UNCHANGED <<pass, nunits, idx, pool, cooldown, r_i, cur, vals, ulog,
                   signalled, age, tried, attempts, waiting, rrMissed, zstate,
                   main_live>>
    /\ UNCHANGED <<retryVars, sheetVars, rowVars, mailVars, raceVars>>

\* an exception or a KeyboardInterrupt is raised while the zone run is in
\* the state loop, in an insert pass or in the update pass.  Caught in
\* get_links_and_status it ends the pass (1719-1720; 1731-1735 with the
\* finally); else it leaves get_links_and_status, through the finally of
\* 1734-1735 when it comes from the update pass, and through the finally
\* of main (1835-1842: drv.quit())
ZoneRaise(kind) ==
    /\ zpc \in {"states", "insert", "update"}
    /\ pc' = "idle"
    /\ IF Caught(kind, zpc)
       THEN /\ zrun' = Append(zrun, Step(zpc, IF zpc = "insert" THEN zstate ELSE 0,
                                         "raised"))
            /\ zpc' = IF zpc = "insert" THEN "states" ELSE "returned"
            /\ UNCHANGED main_live
       ELSE /\ zrun' = Append(zrun, Step(kind, zstate, zpc))
            /\ zpc' = "exited"
            /\ main_live' = FALSE
    /\ live' = IF zpc = "update" THEN shutdown_detail_drivers(live, pool) ELSE live
    /\ UNCHANGED <<pass, nunits, idx, pool, cooldown, r_i, cur, vals, ulog,
                   signalled, age, tried, attempts, waiting, rrMissed, zstate>>
    /\ UNCHANGED <<retryVars, sheetVars, rowVars, mailVars, raceVars>>

\* main.py 1835-1843: get_links_and_status returned; finally: drv.quit(),
\* and main goes on to the next profile
MainFinally ==
    /\ zpc = "returned"
    /\ zpc' = "closed"
    /\ main_live' = FALSE
    /\ UNCHANGED <<zstate, zrun>>
    /\ UNCHANGED <<poolVars, retryVars, sheetVars, rowVars, mailVars, raceVars>>

ZoneNext ==
    \/ Next
    \/ \E found \in BOOLEAN, n \in 0..MaxLinks : ZoneState(found, n)
    \/ ZoneInsertReturned
    \/ \E n \in 0..MaxLinks : ZoneUpdate(n)
    \/ ZoneUpdateReturned
    \/ \E kind \in Raised : ZoneRaise(kind)
    \/ MainFinally

ZoneSpec == ZoneInit /\ [][ZoneNext]_vars

(***************************************************************************)
(* C31: the sessions when the zone run is left.                            *)
(***************************************************************************)
\* C31: on every exit path of a zone run (normal completion, an exception,
\* or an external interrupt raised at any point after the detail pool was
\* loaded, including during the per-state loop), every session still in
\* the detail pool is closed, and the profile's main session is closed,
\* before the process moves on or exits.
C31_SessionsClosedOnExit ==
    zpc \in {"closed", "exited"} =>
        /\ Range(pool) \cap live = {}
        /\ ~ main_live

(***************************************************************************)
(* C32: the order of the passes of a zone run.                             *)
(***************************************************************************)
UpdateCalls ==
    {i \in DOMAIN zrun : zrun[i].step = "update" /\ zrun[i].how = "called"}

\* what was raised and left get_links_and_status
Escapes == {i \in DOMAIN zrun : zrun[i].step \in Raised}

\* the loop is through with state k: its insert pass returned or failed, or
\* the state had no list
StateOver(k, i) ==
    \E j \in 1..(i - 1) :
        zrun[j].state = k /\ zrun[j].step \in {"insert", "skip"}

\* C32: within a zone, the steps are strictly sequential: the update pass
\* of a zone starts only after the insert passes of all of that zone's
\* states have returned, it runs exactly once per zone run (never twice,
\* and once when get_links_and_status returns), and a failure of one
\* state's insert pass does not prevent the later states' insert passes or
\* the update pass (no exception raised in an insert pass ends the run).
C32_PassesSequential ==
    /\ Cardinality(UpdateCalls) <= 1
    /\ \A i \in UpdateCalls : \A k \in 1..NStates : StateOver(k, i)
    /\ zpc = "insert" => UpdateCalls = {}
    /\ zpc = "update" => UpdateCalls # {}
    /\ zpc \in {"returned", "closed"} => Cardinality(UpdateCalls) = 1
    /\ \A i \in Escapes :
          zrun[i].step = "exception" => zrun[i].how = "states"

\* the insert pass of the first state failed, the insert pass of the second
\* state and the update pass ran all the same
C32_Witness ==
    /\ zpc = "closed"
    /\ zrun = <<Step("insert", 1, "raised"), Step("insert", 2, "returned"),
                Step("update", 0, "called"), Step("update", 0, "returned")>>

(***************************************************************************)
(* C37: retired profiles over the passes of a zone run.                    *)
(***************************************************************************)
\* a pass of the zone run is in its loop
InPassLoop ==
    /\ zpc \in {"insert", "update"}
    /\ pc \in {"loop", "pick", "got", "pick2", "got2"}

\* profiles retired by a block signal and not re-opened since
Retired == signalled \ live

\* C37: a resource retired by a block signal stays tracked for rehydration
\* for the rest of the zone run: while a later insert pass or the update
\* pass runs, the profile is on the cooldown list the ticks of that pass
\* count down, so that it gets its rehydration attempt.
C37_RetiredStayTracked ==
    InPassLoop => \A p \in Retired : p \in CooldownProfiles

(***************************************************************************)
(* The update pass of a zone (main.py 1209-1342) beside the upload job of  *)
(* sheet_automation.py (526-636, 640-818) on the same zone table: two      *)
(* processes whose calls of the sheet interleave.                          *)
(***************************************************************************)
\* the zone of the profile whose update pass runs
RaceZone == "EAST"

\* the zone table holds a row past the age limit and a row the CSV sells
RaceScenario ==
    Scenario((2 :> RowStale) @@ (3 :> RowOak), 3, NoRows, 1, NoRows, 1,
             <<SoldOak>>)

\* main.py 1262-1271: the rows of the chunk with the row number each had
\* when the chunk was read (rownum = start + offset)
RECURSIVE chunk_candidates(_, _)
chunk_candidates(t, rs) ==
    IF rs = <<>> THEN <<>>
    ELSE <<[rownum |-> Head(rs), row |-> t[Head(rs)]]>>
             \o chunk_candidates(t, Tail(rs))

\* ws.update(f"A{rownum}:J{rownum}", ...): the row at that number now
\* holds the values written
ws_update(t, rownum, row) == (rownum :> row) @@ t

\* the link the table holds at a row number
LinkAt(t, rownum) == IF rownum \in DOMAIN t THEN strip(t[rownum].link) ELSE ""

\* the upload job is started on the scenario and the update pass opened
\* the same zone table
RaceInit ==
    /\ PoolIdle
    /\ RetryIdle
    /\ RowIdle
    /\ MailIdle
    /\ ZoneIdle
    /\ job = "upload"
    /\ spc = "begin"
    /\ zi = 0
    /\ sheets = RaceScenario.sheets
    /\ row_count = RaceScenario.row_count
    /\ csv = RaceScenario.csv
    /\ input = RaceScenario
    /\ faults = {}
    /\ dirty = FALSE
    /\ cut = ""
    /\ tgt_ws = {}
    /\ target = [z \in Range(zones) |-> <<>>]
    /\ start = 0
    /\ max_row = 0
    /\ win = NoWin
    /\ scan_exit = ""
    /\ auction_col = FALSE
    /\ seen_links = {}
    /\ to_delete = {}
    /\ target_rows_buffer = <<>>
    /\ ins_i = 0
    /\ dels = <<>>
    /\ applied = <<>>
    /\ matches = {}
    /\ zlog = <<>>
    /\ nrows = 0
    /\ last_row = 0
    /\ chunk_size = 0
    /\ max_chunks = 0
    /\ chunk_idx = 0
    /\ windows = <<>>
    /\ examined = {}
    /\ u_pc = "read"
    /\ u_rows = <<>>
    /\ u_log = <<>>

\* frame of the update pass beside the upload job: all but the tables
RaceFrame ==
    /\ UNCHANGED <<job, spc, zi, row_count, csv, tgt_ws, target, start,
                   max_row, win, scan_exit, auction_col, seen_links, to_delete,
                   target_rows_buffer, ins_i, dels, applied, matches, zlog>>
    /\ UNCHANGED <<scanOnly, runVars>>
    /\ UNCHANGED <<poolVars, retryVars, rowVars, mailVars, zoneVars>>

\* main.py 1259-1275: rows = ws.get_values(f"A{start}:J{end}"), the one
\* chunk of a table of fewer than 500 rows; the rows of the scenario are
\* candidates
RaceRead ==
    /\ u_pc = "read"
    /\ u_pc' = "rows"
    /\ u_rows' = chunk_candidates(sheets[RaceZone],
                                  sorted_ascending(DOMAIN sheets[RaceZone]))
    /\ UNCHANGED <<sheets, u_log>>
    /\ RaceFrame

\* main.py 1277-1338: the next row of the chunk: scraped, and when the
\* scrape gave data, written at the row number of the chunk read (1332)
RaceRow(scraped) ==
    /\ u_pc = "rows" /\ u_rows # <<>>
    /\ u_rows' = Tail(u_rows)
    /\ IF scraped /\ strip(Head(u_rows).row.link) # ""
       THEN /\ sheets' = [sheets EXCEPT ![RaceZone] =
                            ws_update(@, Head(u_rows).rownum, Head(u_rows).row)]
            /\ u_log' = Append(u_log,
                               [rownum |-> Head(u_rows).rownum,
                                link   |-> strip(Head(u_rows).row.link),
                                held   |-> LinkAt(sheets[RaceZone],
                                                  Head(u_rows).rownum)])
       ELSE UNCHANGED <<sheets, u_log>>
    /\ UNCHANGED u_pc
    /\ RaceFrame

\* main.py 1340-1342: start = end + 1 passes data_end; return stats
RaceReturn ==
    /\ u_pc = "rows" /\ u_rows = <<>>
    /\ u_pc' = "done"
    /\ UNCHANGED <<sheets, u_rows, u_log>>
    /\ RaceFrame

RaceNext ==
    \/ UploadNext
    \/ RaceRead
    \/ \E scraped \in BOOLEAN : RaceRow(scraped)
    \/ RaceReturn

RaceSpec == RaceInit /\ [][RaceNext]_vars

(***************************************************************************)
(* C39: in-place updates beside the deletes of the upload job.             *)
(***************************************************************************)
\* C39: when the update pass of a zone and the cleanup / upload pass
\* (which deletes rows of the same zone table) run as two interleaved
\* processes, every in-place update still writes the fields scraped for
\* link L to the row that holds link L at the time of the write.
C39_UpdateHitsItsLink ==
    \A k \in DOMAIN u_log : u_log[k].held = u_log[k].link

====
